---- MODULE Spec2Model ----
(***************************************************************************)
(* Habitat layout builder: the layout document, the layout validator       *)
(* (utils/validation: validateLayout, canSwitchTo3D) and the port          *)
(* compatibility predicate of the module catalogue.                        *)
(*                                                                         *)
(* Lengths and volumes are written in the document as decimal numbers with *)
(* two places (1.19 m, 10.09 m3).  The state keeps them as the integer     *)
(* number of hundredths; the validator computes on them as JavaScript      *)
(* Numbers, i.e. IEEE-754 binary64, which is modelled bit-exactly below.   *)
(***************************************************************************)
EXTENDS Integers, Sequences, FiniteSets, TLC

(***************************************************************************)
(* Natural numbers of arbitrary size: little-endian sequences of limbs in  *)
(* base 2^15, without leading zero limbs (zero is the empty sequence).     *)
(***************************************************************************)
LimbBits == 15

Base == 2 ^ LimbBits

RECURSIVE BNorm(_)
BNorm(a) ==
  IF a = <<>> THEN <<>>
  ELSE IF a[Len(a)] = 0 THEN BNorm(SubSeq(a, 1, Len(a) - 1))
  ELSE a

RECURSIVE BFromInt(_)
BFromInt(n) == IF n = 0 THEN <<>> ELSE <<n % Base>> \o BFromInt(n \div Base)

RECURSIVE BToInt(_)
BToInt(a) == IF a = <<>> THEN 0 ELSE Head(a) + Base * BToInt(Tail(a))

RECURSIVE BAddC(_, _, _)
BAddC(a, b, c) ==
  IF a = <<>> /\ b = <<>> THEN (IF c = 0 THEN <<>> ELSE <<c>>)
  ELSE LET x == IF a = <<>> THEN 0 ELSE Head(a)
           y == IF b = <<>> THEN 0 ELSE Head(b)
           s == x + y + c
       IN  <<s % Base>> \o BAddC(IF a = <<>> THEN a ELSE Tail(a),
                                 IF b = <<>> THEN b ELSE Tail(b),
                                 s \div Base)

BAdd(a, b) == BAddC(a, b, 0)

RECURSIVE BSubC(_, _, _)
BSubC(a, b, c) ==
  IF a = <<>> THEN <<>>
  ELSE LET y == IF b = <<>> THEN 0 ELSE Head(b)
           d == Head(a) - y - c
       IN  <<IF d < 0 THEN d + Base ELSE d>>
             \o BSubC(Tail(a), IF b = <<>> THEN b ELSE Tail(b),
                      IF d < 0 THEN 1 ELSE 0)

\* a - b for a >= b
BSub(a, b) == BNorm(BSubC(a, b, 0))

RECURSIVE BCmpFrom(_, _, _)
BCmpFrom(a, b, i) ==
  IF i = 0 THEN 0
  ELSE IF a[i] < b[i] THEN -1
  ELSE IF a[i] > b[i] THEN 1
  ELSE BCmpFrom(a, b, i - 1)

\* -1, 0, 1 as a < b, a = b, a > b
BCmp(a, b) ==
  IF Len(a) < Len(b) THEN -1
  ELSE IF Len(a) > Len(b) THEN 1
  ELSE BCmpFrom(a, b, Len(a))

RECURSIVE BMulSmallC(_, _, _)
BMulSmallC(a, k, c) ==
  IF a = <<>> THEN (IF c = 0 THEN <<>> ELSE <<c>>)
  ELSE LET p == Head(a) * k + c
       IN  <<p % Base>> \o BMulSmallC(Tail(a), k, p \div Base)

\* a * k for 0 <= k < Base
BMulSmall(a, k) == IF k = 0 THEN <<>> ELSE BMulSmallC(a, k, 0)

RECURSIVE BMul(_, _)
BMul(a, b) ==
  IF a = <<>> \/ b = <<>> THEN <<>>
  ELSE BAdd(BMulSmall(a, Head(b)),
            LET r == BMul(a, Tail(b)) IN IF r = <<>> THEN r ELSE <<0>> \o r)

RECURSIVE BDivSmallFrom(_, _, _, _, _)
BDivSmallFrom(a, k, i, r, q) ==
  IF i = 0 THEN [q |-> BNorm(q), r |-> BFromInt(r)]
  ELSE BDivSmallFrom(a, k, i - 1, (r * Base + a[i]) % k,
                     <<(r * Base + a[i]) \div k>> \o q)

\* quotient and remainder of a by k, 0 < k < Base
BDivSmall(a, k) == BDivSmallFrom(a, k, Len(a), 0, <<>>)

RECURSIVE Zeros(_)
Zeros(n) == IF n = 0 THEN <<>> ELSE <<0>> \o Zeros(n - 1)

\* a * 2^n
BShl(a, n) ==
  IF a = <<>> THEN <<>>
  ELSE Zeros(n \div LimbBits) \o BMulSmall(a, 2 ^ (n % LimbBits))

\* the low limbs of a joined to what the division of its high limbs left
BSplitAt(a, k, d) == [q |-> d.q, r |-> BNorm(SubSeq(a, 1, k) \o d.r)]

\* floor(a / 2^n) and a mod 2^n
BSplit(a, n) ==
  IF Len(a) <= n \div LimbBits THEN [q |-> <<>>, r |-> a]
  ELSE BSplitAt(a, n \div LimbBits,
                BDivSmall(SubSeq(a, (n \div LimbBits) + 1, Len(a)),
                          2 ^ (n % LimbBits)))

RECURSIVE IntBitLen(_)
IntBitLen(n) == IF n = 0 THEN 0 ELSE 1 + IntBitLen(n \div 2)

\* number of significant bits of a
BBitLen(a) ==
  IF a = <<>> THEN 0 ELSE LimbBits * (Len(a) - 1) + IntBitLen(a[Len(a)])

BIsOdd(a) == a # <<>> /\ Head(a) % 2 = 1

RECURSIVE BDigit(_, _, _, _)
\* the largest d in lo..hi with b * d <= r (b * lo <= r is given)
BDigit(b, r, lo, hi) ==
  IF lo = hi THEN lo
  ELSE IF BCmp(BMulSmall(b, (lo + hi + 1) \div 2), r) <= 0
  THEN BDigit(b, r, (lo + hi + 1) \div 2, hi)
  ELSE BDigit(b, r, lo, ((lo + hi + 1) \div 2) - 1)

RECURSIVE BDivModFrom(_, _, _, _, _)
RECURSIVE BDivModStep(_, _, _, _, _, _)
\* schoolbook long division: limb i of a is brought down to the remainder r
BDivModFrom(a, b, i, r, q) ==
  IF i = 0 THEN [q |-> BNorm(q), r |-> r]
  ELSE BDivModStep(a, b, i, BNorm(<<a[i]>> \o r), q,
                   BDigit(b, BNorm(<<a[i]>> \o r), 0, Base - 1))

BDivModStep(a, b, i, cur, q, d) ==
  BDivModFrom(a, b, i - 1, BSub(cur, BMulSmall(b, d)), <<d>> \o q)

\* quotient and remainder of a by b, b > 0
BDivMod(a, b) == BDivModFrom(a, b, Len(a), <<>>, <<>>)

(***************************************************************************)
(* JavaScript Numbers: IEEE-754 binary64, round to nearest, ties to even.  *)
(* A non-negative finite Number is [m, e] with value m * 2^e, where m is 0 *)
(* (and e = 0) or has exactly 53 significant bits.  The quantities of a    *)
(* layout are far from the subnormal and the overflow range.               *)
(***************************************************************************)
MantBits == 53

DZero == [m |-> <<>>, e |-> 0]

\* a mantissa that rounding carried to 54 bits is brought back to 53
DRenorm(q, e) ==
  IF BBitLen(q) > MantBits THEN [m |-> BDivSmall(q, 2).q, e |-> e + 1]
  ELSE [m |-> q, e |-> e]

\* round to nearest, ties to even: s is the split of the digits at the 53rd,
\* c compares what was cut off with one half
DRoundUp(s, c, e, sticky) ==
  DRenorm(IF c > 0 \/ (c = 0 /\ (sticky \/ BIsOdd(s.q)))
          THEN BAdd(s.q, <<1>>) ELSE s.q, e)

DRoundCut(s, sh, e, sticky) ==
  DRoundUp(s, BCmp(s.r, BShl(<<1>>, sh - 1)), e + sh, sticky)

DRoundLen(n, e, sticky, L) ==
  IF L <= MantBits
  THEN [m |-> BShl(n, MantBits - L), e |-> e - (MantBits - L)]
  ELSE DRoundCut(BSplit(n, L - MantBits), L - MantBits, e, sticky)

\* the Number nearest to n * 2^e (+ a non-zero fraction of 2^e when sticky)
DRound(n, e, sticky) ==
  IF n = <<>> THEN DZero ELSE DRoundLen(n, e, sticky, BBitLen(n))

IntMin(a, b) == IF a < b THEN a ELSE b

\* the Number nearest to q + r / b: q are the digits, r what a division left
DRoundDiv(d, e) == DRound(d.q, e, d.r # <<>>)

\* the exact digits of a + b, a * b or a / b (a quotient and its remainder)
DExact(op, a, b) ==
  IF op = "/" THEN BDivMod(BShl(a.m, 60), b.m)
  ELSE [q |-> IF op = "*" THEN BMul(a.m, b.m)
              ELSE BAdd(BShl(a.m, a.e - IntMin(a.e, b.e)),
                        BShl(b.m, b.e - IntMin(a.e, b.e))),
        r |-> <<>>]

\* the arithmetic of Numbers: a + b, a * b, a / b (b > 0)
DArith(op, a, b) ==
  IF op = "+" /\ a.m = <<>> THEN b
  ELSE IF op = "+" /\ b.m = <<>> THEN a
  ELSE IF a.m = <<>> \/ b.m = <<>> THEN DZero
  ELSE DRoundDiv(DExact(op, a, b),
                 IF op = "/" THEN a.e - 60 - b.e
                 ELSE IF op = "*" THEN a.e + b.e
                 ELSE IntMin(a.e, b.e))

DAdd(a, b) == DArith("+", a, b)

DMul(a, b) == DArith("*", a, b)

DDiv(a, b) == DArith("/", a, b)

\* a - b for a >= b
DSub(a, b) ==
  IF b.m = <<>> THEN a
  ELSE DRound(BSub(BShl(a.m, a.e - IntMin(a.e, b.e)),
                   BShl(b.m, b.e - IntMin(a.e, b.e))),
              IntMin(a.e, b.e), FALSE)

\* -1, 0, 1 as a < b, a = b, a > b
DCmp(a, b) ==
  IF a.m = <<>> THEN (IF b.m = <<>> THEN 0 ELSE -1)
  ELSE IF b.m = <<>> THEN 1
  ELSE IF a.e = b.e THEN BCmp(a.m, b.m)
  ELSE IF a.e < b.e THEN -1
  ELSE 1

DLt(a, b) == DCmp(a, b) < 0

DLe(a, b) == DCmp(a, b) <= 0

DGt(a, b) == DCmp(a, b) > 0

\* the Number a decimal literal or JSON number n/den denotes (0 <= n < 2^31,
\* 0 < den < 2^15): the binary64 value nearest to it
DFromDec(n, den) ==
  IF n = 0 THEN DZero
  ELSE DRoundDiv(BDivSmall(BShl(BFromInt(n), 70), den), -70)

\* the Number an integer 0 <= n < 2^31 denotes (exact)
DFromInt(n) == DFromDec(n, 1)

\* the Number of a quantity kept in hundredths: 1019 is 10.19
Centi(n) == DFromDec(n, 100)

\* the Numbers of a list of quantities kept in hundredths
Numbers(list) == [i \in 1..Len(list) |-> Centi(list[i])]

\* s is the split of an integer at its binary point: the integer part, one
\* more when the fraction reaches the threshold
DRoundAt(s, threshold) ==
  BToInt(s.q) + (IF s.r # <<>> /\ BCmp(s.r, threshold) >= 0 THEN 1 ELSE 0)

\* the integer at or next above d * k: the nearest one, ties upwards, when half
\* is TRUE, the ceiling otherwise (d * k < 2^31)
DToInt(d, k, half) ==
  IF d.m = <<>> THEN 0
  ELSE IF d.e >= 0 THEN BToInt(BShl(BMulSmall(d.m, k), d.e))
  ELSE DRoundAt(BSplit(BMulSmall(d.m, k), -d.e),
                IF half THEN BShl(<<1>>, (-d.e) - 1) ELSE <<1>>)

\* Number.prototype.toFixed(1): the digits of the result, as a count of tenths
ToFixed1(d) == DToInt(d, 10, TRUE)

\* Math.round
MathRound(d) == DToInt(d, 1, TRUE)

\* Math.ceil
MathCeil(d) == DToInt(d, 1, FALSE)

\* Math.max
MathMax(a, b) == IF a > b THEN a ELSE b

\* Math.max and Math.min of two Numbers
DMax(a, b) == IF DLt(a, b) THEN b ELSE a

DMin(a, b) == IF DLt(b, a) THEN b ELSE a

\* the quantity in hundredths nearest to a Number
Hundredths(d) == DToInt(d, 100, TRUE)

(***************************************************************************)
(* The catalogue (data/mainModules, data/subModules).  Metres and cubic    *)
(* metres are kept in hundredths.                                          *)
(***************************************************************************)
Port(id, type) == [id |-> id, type |-> type]

MainModule(id, shortName, width, depth, height, volume, ports, allowed) ==
  [id |-> id, shortName |-> shortName, width |-> width, depth |-> depth,
   height |-> height, volume |-> volume, ports |-> ports,
   allowedSubModules |-> allowed]

Wardroom ==
  MainModule("wardroom", "Wardroom", 119, 119, 191, 1009,
             <<Port("ward-n", "std-port"), Port("ward-s", "std-port"),
               Port("ward-e", "std-port"), Port("ward-w", "std-port")>>,
             <<"dining-table", "locker", "leisure-seat">>)

Hygiene ==
  MainModule("hygiene", "Hygiene", 121, 143, 251, 434,
             <<Port("hyg-n", "svc-port"), Port("hyg-s", "svc-port"),
               Port("hyg-e", "std-port"), Port("hyg-w", "std-port")>>,
             <<"shower-stall", "locker">>)

Galley ==
  MainModule("galley", "Galley", 141, 141, 191, 435,
             <<Port("gal-n", "std-port"), Port("gal-s", "std-port"),
               Port("gal-e", "std-port"), Port("gal-w", "std-port")>>,
             <<"food-prep-console", "locker">>)

Medical ==
  MainModule("medical", "Medical", 200, 145, 200, 580,
             <<Port("med-n", "std-port"), Port("med-s", "std-port"),
               Port("med-e", "std-port"), Port("med-w", "std-port")>>,
             <<"treatment-bay", "locker">>)

Maintenance ==
  MainModule("maintenance", "Maintenance", 202, 98, 191, 435,
             <<Port("maint-n", "std-port"), Port("maint-s", "std-port"),
               Port("maint-e", "std-port"), Port("maint-w", "std-port")>>,
             <<"workbench-surface", "locker">>)

Storage ==
  MainModule("storage-logistics", "Storage", 98, 202, 231, 600,
             <<Port("stor-n", "std-port"), Port("stor-s", "std-port"),
               Port("stor-e", "airlock-port"), Port("stor-w", "std-port")>>,
             <<"logistics-rack", "locker">>)

Social ==
  MainModule("group-social", "Social", 191, 191, 149, 1009,
             <<Port("soc-n", "std-port"), Port("soc-s", "std-port"),
               Port("soc-e", "std-port"), Port("soc-w", "std-port")>>,
             <<"dining-table", "leisure-seat">>)

Vanity ==
  MainModule("private-vanity", "Vanity", 91, 99, 200, 180,
             <<Port("van-n", "hab-port"), Port("van-s", "hab-port"),
               Port("van-e", "std-port"), Port("van-w", "std-port")>>,
             <<"mirror-station", "leisure-seat", "locker">>)

Recreation ==
  MainModule("private-recreation", "Recreation", 91, 66, 200, 120,
             <<Port("rec-n", "hab-port"), Port("rec-s", "hab-port"),
               Port("rec-e", "std-port"), Port("rec-w", "std-port")>>,
             <<"mirror-station", "leisure-seat", "locker">>)

mainModules ==
  <<Wardroom, Hygiene, Galley, Medical, Maintenance, Storage, Social, Vanity,
    Recreation>>

SubModule(id, shortName, width, depth, height, volume, zAware) ==
  [id |-> id, shortName |-> shortName, width |-> width, depth |-> depth,
   height |-> height, volume |-> volume, zAware |-> zAware]

ShowerStall == SubModule("shower-stall", "Shower", 70, 70, 210, 103, TRUE)

DiningTable == SubModule("dining-table", "Table", 70, 100, 75, 53, FALSE)

Locker == SubModule("locker", "Locker", 55, 45, 191, 47, TRUE)

LogisticsRack == SubModule("logistics-rack", "Log Rack", 50, 100, 200, 100, TRUE)

Workbench == SubModule("workbench-surface", "Workbench", 100, 50, 90, 45, TRUE)

MirrorStation == SubModule("mirror-station", "Mirror", 50, 15, 80, 6, TRUE)

LeisureSeat == SubModule("leisure-seat", "Seat", 75, 55, 200, 83, TRUE)

FoodPrep == SubModule("food-prep-console", "Food Prep", 85, 50, 90, 38, TRUE)

TreatmentBay == SubModule("treatment-bay", "Med Bay", 100, 70, 120, 84, TRUE)

subModules ==
  <<ShowerStall, DiningTable, Locker, LogisticsRack, Workbench, MirrorStation,
    LeisureSeat, FoodPrep, TreatmentBay>>

\* canPortsConnect (data/mainModules)
\* canPortsConnect letting a hab-port join a svc-port in that order only
canPortsConnect_OneWay(port1Type, port2Type) ==
  \/ port1Type = port2Type
  \/ port1Type = "std-port" \/ port2Type = "std-port"
  \/ port1Type = "hab-port" /\ port2Type = "svc-port"

canPortsConnect(port1Type, port2Type) ==
  IF port1Type = port2Type THEN TRUE
  ELSE IF port1Type = "std-port" \/ port2Type = "std-port" THEN TRUE
  ELSE IF (port1Type = "hab-port" /\ port2Type = "svc-port")
          \/ (port1Type = "svc-port" /\ port2Type = "hab-port") THEN TRUE
  ELSE FALSE

(***************************************************************************)
(* The layout document (types/layout).                                     *)
(***************************************************************************)
\* null of a nullable id; undefined of an absent moduleId
Null == "null"

Undefined == "undefined"

PlacedMainModule(module, instanceId, x, y, rotation) ==
  [instanceId |-> instanceId, x |-> x, y |-> y, rotation |-> rotation] @@ module

PlacedSubModule(module, instanceId, parentInstanceId, x, y, z) ==
  [instanceId |-> instanceId, parentInstanceId |-> parentInstanceId,
   x |-> x, y |-> y, z |-> z] @@ module

Connection(id, fromModuleId, fromPortId, toModuleId, toPortId) ==
  [id |-> id, fromModuleId |-> fromModuleId, fromPortId |-> fromPortId,
   toModuleId |-> toModuleId, toPortId |-> toPortId]

LayoutState(crewSize, mains, subs, conns, selMain, selSub, zoomed) ==
  [crewSize |-> crewSize, mainModules |-> mains, subModules |-> subs,
   connections |-> conns, selectedMainModuleId |-> selMain,
   selectedSubModuleId |-> selSub, zoomedModuleId |-> zoomed]

\* a finding; moduleId is Undefined where the rule sets none.  The message is
\* its template's name followed by the values the template interpolates.
ValidationError(type, message, moduleId) ==
  [type |-> type, message |-> message, moduleId |-> moduleId]

(***************************************************************************)
(* The validator (utils/validation).                                       *)
(***************************************************************************)
MIN_HABITABLE_VOLUME_PER_CREW == DFromInt(10)

\* Array.prototype.find on instanceId: the first match, as a list of 0 or 1
FindByInstanceId(modules, instanceId) ==
  LET hits == SelectSeq(modules, LAMBDA m : m.instanceId = instanceId)
  IN  IF hits = <<>> THEN <<>> ELSE <<Head(hits)>>

FindPort(ports, portId) ==
  LET hits == SelectSeq(ports, LAMBDA p : p.id = portId)
  IN  IF hits = <<>> THEN <<>> ELSE <<Head(hits)>>

Includes(list, x) == \E i \in 1..Len(list) : list[i] = x

InstanceIds(modules) == [i \in 1..Len(modules) |-> modules[i].instanceId]

RECURSIVE SumVolume(_, _)
\* reduce((sum, m) => sum + m.volume, sum)
SumVolume(list, sum) ==
  IF list = <<>> THEN sum
  ELSE SumVolume(Tail(list), DAdd(sum, Centi(Head(list).volume)))

RECURSIVE Dedup(_, _)
\* [...new Set(list)]: the distinct elements in order of first appearance
Dedup(list, seen) ==
  IF list = <<>> THEN <<>>
  ELSE IF Head(list) \in seen THEN Dedup(Tail(list), seen)
  ELSE <<Head(list)>> \o Dedup(Tail(list), seen \cup {Head(list)})

RECURSIVE VisitConnections(_, _, _, _)
\* the forEach over state.connections for one popped module
VisitConnections(conns, current, connectedSet, toVisit) ==
  IF conns = <<>> THEN [connectedSet |-> connectedSet, toVisit |-> toVisit]
  ELSE LET conn == Head(conns)
       IN  IF conn.fromModuleId = current /\ conn.toModuleId \notin connectedSet
           THEN VisitConnections(Tail(conns), current,
                                 connectedSet \cup {conn.toModuleId},
                                 Append(toVisit, conn.toModuleId))
           ELSE IF conn.toModuleId = current
                   /\ conn.fromModuleId \notin connectedSet
           THEN VisitConnections(Tail(conns), current,
                                 connectedSet \cup {conn.fromModuleId},
                                 Append(toVisit, conn.fromModuleId))
           ELSE VisitConnections(Tail(conns), current, connectedSet, toVisit)

RECURSIVE Traverse(_, _, _)
\* the while loop: pop the last module to visit, scan the connections
Traverse(conns, connectedSet, toVisit) ==
  IF toVisit = <<>> THEN connectedSet
  ELSE LET current == toVisit[Len(toVisit)]
           after   == VisitConnections(conns, current, connectedSet,
                                       SubSeq(toVisit, 1, Len(toVisit) - 1))
       IN  Traverse(conns, after.connectedSet, after.toVisit)

findFloatingModules(state) ==
  IF Len(state.mainModules) <= 1 THEN <<>>
  ELSE IF Len(state.connections) = 0
  THEN InstanceIds(Tail(state.mainModules))
  ELSE LET first        == state.mainModules[1].instanceId
           connectedSet == Traverse(state.connections, {first}, <<first>>)
       IN  InstanceIds(SelectSeq(state.mainModules,
                                 LAMBDA m : m.instanceId \notin connectedSet))

\* mutant: the dimensions are never swapped
getDim_NoSwap(m) == [w |-> m.width, d |-> m.depth]

\* getDim: width and depth as the rotation places them
getDim(m) ==
  IF m.rotation = 90 \/ m.rotation = 270
  THEN [w |-> m.depth, d |-> m.width]
  ELSE [w |-> m.width, d |-> m.depth]

tol == DFromDec(1, 100)

\* one operand of the ||: n[1] + n[2] <= n[3] + tol
EndsBefore(n) == DLe(DAdd(n[1], n[2]), DAdd(n[3], tol))

\* the overlap test on the dimensions d1, d2 that getDim gave
OverlapOfDims(m1, m2, d1, d2) ==
  ~ \E operand \in {<<m1.x, d1.w, m2.x>>, <<m2.x, d2.w, m1.x>>,
                    <<m1.y, d1.d, m2.y>>, <<m2.y, d2.d, m1.y>>} :
      EndsBefore(Numbers(operand))

doModulesOverlap(m1, m2) == OverlapOfDims(m1, m2, getDim(m1), getDim(m2))

RECURSIVE OverlapPairs(_, _, _)
\* the two nested loops, i < j, pushing both ids of each overlapping pair
OverlapPairs(modules, i, j) ==
  IF i > Len(modules) THEN <<>>
  ELSE IF j > Len(modules) THEN OverlapPairs(modules, i + 1, i + 2)
  ELSE (IF doModulesOverlap(modules[i], modules[j])
        THEN <<modules[i].instanceId, modules[j].instanceId>>
        ELSE <<>>) \o OverlapPairs(modules, i, j + 1)

checkMainModuleOverlaps(modules) == Dedup(OverlapPairs(modules, 1, 2), {})

\* the findings of validateParentCapacity for one main module, given the two
\* volumes
CapacityFindings(mainModule, totalSubVolume, availableVolume) ==
  (IF DGt(totalSubVolume, DMul(availableVolume, DFromDec(9, 10)))
      /\ DLe(totalSubVolume, availableVolume)
   THEN <<ValidationError("warning",
            <<"at % capacity", mainModule.shortName,
              MathRound(DMul(DDiv(totalSubVolume, availableVolume),
                             DFromInt(100)))>>,
            mainModule.instanceId)>>
   ELSE <<>>)
  \o
  (IF DGt(totalSubVolume, availableVolume)
   THEN <<ValidationError("error",
            <<"exceeds capacity", mainModule.shortName,
              ToFixed1(totalSubVolume), ToFixed1(availableVolume)>>,
            mainModule.instanceId)>>
   ELSE <<>>)

ParentCapacityOf(state, mainModule) ==
  CapacityFindings(mainModule,
    SumVolume(SelectSeq(state.subModules,
                LAMBDA sub : sub.parentInstanceId = mainModule.instanceId),
              DZero),
    Centi(mainModule.volume))

RECURSIVE FlatMap(_, _)
\* forEach over a list, each element pushing Op(element) onto errors
FlatMap(Op(_), list) ==
  IF list = <<>> THEN <<>> ELSE Op(Head(list)) \o FlatMap(Op, Tail(list))

validateParentCapacity(state) ==
  FlatMap(LAMBDA mainModule : ParentCapacityOf(state, mainModule),
          state.mainModules)

\* the finding of validateCrewVolume given the two volumes, or none (null), as
\* a list of 0 or 1
CrewVolumeFinding(state, totalVolume, minRequired) ==
  IF DLt(totalVolume, minRequired)
  THEN <<ValidationError("error",
           <<"Insufficient volume",
             ToFixed1(totalVolume), ToFixed1(minRequired), state.crewSize>>,
           Undefined)>>
  ELSE <<>>

validateCrewVolume(state) ==
  CrewVolumeFinding(state,
    SumVolume(state.mainModules, DZero),
    DMul(DFromInt(state.crewSize), MIN_HABITABLE_VOLUME_PER_CREW))

CountId(modules, id) == Len(SelectSeq(modules, LAMBDA m : m.id = id))

\* the findings of validateEssentials given the two hygiene counts
EssentialsFindings(state, minHygiene, hygieneCount) ==
  (IF hygieneCount < minHygiene
   THEN <<ValidationError("error",
            <<"Need hygiene module(s)", minHygiene, hygieneCount>>,
            Undefined)>>
   ELSE <<>>)
  \o
  (IF CountId(state.mainModules, "galley") < 1
   THEN <<ValidationError("error", <<"Need at least 1 galley module">>,
                          Undefined)>>
   ELSE <<>>)
  \o
  (IF CountId(state.mainModules, "medical") < 1
   THEN <<ValidationError("error", <<"Need at least 1 medical module">>,
                          Undefined)>>
   ELSE <<>>)

\* mutant: the minimum is rounded down
validateEssentials_Floor(state) ==
  EssentialsFindings(state, MathMax(1, state.crewSize \div 3),
                     CountId(state.mainModules, "hygiene"))

validateEssentials(state) ==
  EssentialsFindings(state,
    MathMax(1, MathCeil(DDiv(DFromInt(state.crewSize), DFromInt(3)))),
    CountId(state.mainModules, "hygiene"))

\* ZClearanceFindings without the test of sub.z + sub.height
ZClearanceFindings_HeightOnly(mainModule, sub, n) ==
  IF DGt(n[1], n[3])
  THEN <<ValidationError("error",
           <<"height exceeds", sub.shortName, mainModule.shortName>>,
           mainModule.instanceId)>>
  ELSE <<>>

\* the findings of validateZClearance for one zAware child of mainModule;
\* n holds the Numbers sub.height, sub.z, mainModule.height
ZClearanceFindings(mainModule, sub, n) ==
  (IF DGt(n[1], n[3])
   THEN <<ValidationError("error",
            <<"height exceeds", sub.shortName, mainModule.shortName>>,
            mainModule.instanceId)>>
   ELSE <<>>)
  \o
  (IF DGt(DAdd(n[2], n[1]), n[3])
   THEN <<ValidationError("error",
            <<"extends beyond height", sub.shortName, mainModule.shortName>>,
            mainModule.instanceId)>>
   ELSE <<>>)

ZClearanceOf(mainModule, sub) ==
  ZClearanceFindings(mainModule, sub,
                     Numbers(<<sub.height, sub.z, mainModule.height>>))

\* validateZClearance looking only into the module the canvas is zoomed on
validateZClearance_ZoomedOnly(state) ==
  FlatMap(LAMBDA mainModule :
            FlatMap(LAMBDA sub : ZClearanceOf(mainModule, sub),
                    SelectSeq(state.subModules,
                      LAMBDA sub : sub.parentInstanceId = mainModule.instanceId
                                   /\ sub.zAware)),
          SelectSeq(state.mainModules,
                    LAMBDA m : m.instanceId = state.zoomedModuleId))

validateZClearance(state) ==
  FlatMap(LAMBDA mainModule :
            FlatMap(LAMBDA sub : ZClearanceOf(mainModule, sub),
                    SelectSeq(state.subModules,
                      LAMBDA sub : sub.parentInstanceId = mainModule.instanceId
                                   /\ sub.zAware)),
          state.mainModules)

\* the finding of validatePortConnections for one connection, or none
PortConnectionOf(state, conn) ==
  LET fromMod == FindByInstanceId(state.mainModules, conn.fromModuleId)
      toMod   == FindByInstanceId(state.mainModules, conn.toModuleId)
  IN  IF fromMod = <<>> \/ toMod = <<>>
      THEN <<ValidationError("error",
               <<"Connection references non-existent module">>, Undefined)>>
      ELSE LET fromPort == FindPort(fromMod[1].ports, conn.fromPortId)
               toPort   == FindPort(toMod[1].ports, conn.toPortId)
           IN  IF fromPort = <<>> \/ toPort = <<>>
               THEN <<ValidationError("error",
                        <<"Connection references non-existent port">>,
                        Undefined)>>
               ELSE IF ~canPortsConnect(fromPort[1].type, toPort[1].type)
               THEN <<ValidationError("error",
                        <<"Incompatible ports", fromPort[1].type,
                          toPort[1].type>>,
                        fromMod[1].instanceId)>>
               ELSE <<>>

\* validatePortConnections giving up at the first connection whose module or
\* port does not resolve
validatePortConnections_Abort(state) ==
  LET stop == {i \in 1..Len(state.connections) :
                 /\ PortConnectionOf(state, state.connections[i]) # <<>>
                 /\ PortConnectionOf(state, state.connections[i])[1].moduleId
                      = Undefined}
      n    == IF stop = {} THEN Len(state.connections)
              ELSE CHOOSE i \in stop : \A k \in stop : i <= k
  IN  FlatMap(LAMBDA conn : PortConnectionOf(state, conn),
              SubSeq(state.connections, 1, n))

validatePortConnections(state) ==
  FlatMap(LAMBDA conn : PortConnectionOf(state, conn), state.connections)

\* SubModulePlacementOf without the test of allowedSubModules
SubModulePlacementOf_ParentOnly(state, subModule) ==
  IF FindByInstanceId(state.mainModules, subModule.parentInstanceId) = <<>>
  THEN <<ValidationError("error", <<"has no parent", subModule.shortName>>,
                         Undefined)>>
  ELSE <<>>

\* the finding of validateSubModulePlacement for one sub-module, or none
SubModulePlacementOf(state, subModule) ==
  LET parent == FindByInstanceId(state.mainModules, subModule.parentInstanceId)
  IN  IF parent = <<>>
      THEN <<ValidationError("error", <<"has no parent", subModule.shortName>>,
                             Undefined)>>
      ELSE IF ~Includes(parent[1].allowedSubModules, subModule.id)
      THEN <<ValidationError("error",
               <<"cannot be placed in", subModule.shortName,
                 parent[1].shortName>>,
               parent[1].instanceId)>>
      ELSE <<>>

validateSubModulePlacement(state) ==
  FlatMap(LAMBDA subModule : SubModulePlacementOf(state, subModule),
          state.subModules)

\* String.prototype.split(':'): the pieces of a text between its ':'.  "G:1"
\* is the one id of the model whose text holds a ':'.
Split(text) == IF text = "G:1" THEN <<"G", "1">> ELSE <<text>>

\* the keys `${moduleId}:${portId}` of both ends of every connection, in the
\* order the forEach sets them; a key is the list of the pieces of its text,
\* which two keys share exactly when their texts are equal
PortKeys(conns) ==
  FlatMap(LAMBDA conn : <<Split(conn.fromModuleId) \o Split(conn.fromPortId),
                          Split(conn.toModuleId) \o Split(conn.toPortId)>>,
          conns)

\* portUsage.get(key): how often the key was set
PortUsage(keys, key) == Len(SelectSeq(keys, LAMBDA k : k = key))

\* const [moduleId] = portKey.split(':') is the first piece of the key
validatePortLimits(state) ==
  LET keys == PortKeys(state.connections)
  IN  FlatMap(LAMBDA portKey :
                IF PortUsage(keys, portKey) > 1
                THEN LET module == FindByInstanceId(state.mainModules, portKey[1])
                     IN  <<ValidationError("error",
                             <<"Port connected times (max 1)",
                               IF module = <<>> THEN "module"
                               ELSE module[1].shortName,
                               PortUsage(keys, portKey)>>,
                             portKey[1])>>
                ELSE <<>>,
              Dedup(keys, {}))

\* RULE 1: one error for all floating modules, tagged with the first
ConnectivityFinding(floatingModules) ==
  IF Len(floatingModules) > 0
  THEN <<ValidationError("error",
           <<"main module(s) not connected to station network",
             Len(floatingModules)>>,
           floatingModules[1])>>
  ELSE <<>>

\* RULE 2: one error for all overlapping modules
OverlapFinding(overlaps) ==
  IF Len(overlaps) > 0
  THEN <<ValidationError("error",
           <<"overlapping main module(s) detected", Len(overlaps)>>,
           Undefined)>>
  ELSE <<>>

\* the rules with RULE 2 to RULE 9 left out once RULE 1 has found a floating
\* module
RunRules_StopWhenFloating(state) ==
  IF Len(findFloatingModules(state)) > 0
  THEN ConnectivityFinding(findFloatingModules(state))
  ELSE OverlapFinding(checkMainModuleOverlaps(state.mainModules))
       \o validateParentCapacity(state)
       \o validateCrewVolume(state)
       \o validateEssentials(state)
       \o validateZClearance(state)
       \o validatePortConnections(state)
       \o validateSubModulePlacement(state)
       \o validatePortLimits(state)

\* RULE 1 to RULE 9 of validateLayout, in order
RunRules(state) ==
  ConnectivityFinding(findFloatingModules(state))
  \o OverlapFinding(checkMainModuleOverlaps(state.mainModules))
  \o validateParentCapacity(state)
  \o validateCrewVolume(state)
  \o validateEssentials(state)
  \o validateZClearance(state)
  \o validatePortConnections(state)
  \o validateSubModulePlacement(state)
  \o validatePortLimits(state)

\* a property read of an object that has the property
Has(object, property) == property \in DOMAIN object

\* the outcome of a call that ended with an uncaught TypeError ("Cannot read
\* properties of undefined") instead of returning: one entry, no finding
TypeError == <<ValidationError("TypeError", <<"TypeError">>, Undefined)>>

\* validatePortConnections reads fromMod.ports and toMod.ports of a
\* connection whose two modules are found
ConnectionThrows(state, conn) ==
  LET fromMod == FindByInstanceId(state.mainModules, conn.fromModuleId)
      toMod   == FindByInstanceId(state.mainModules, conn.toModuleId)
  IN  /\ fromMod # <<>>
      /\ toMod # <<>>
      /\ ~Has(fromMod[1], "ports") \/ ~Has(toMod[1], "ports")

\* validateSubModulePlacement reads parent.allowedSubModules of a sub-module
\* whose parent is found
PlacementThrows(state, subModule) ==
  LET parent == FindByInstanceId(state.mainModules, subModule.parentInstanceId)
  IN  parent # <<>> /\ ~Has(parent[1], "allowedSubModules")

\* the reads of validateLayout that throw: state.mainModules.length (line
\* 215); with a main module, state.subModules.filter (line 57) and
\* state.connections.length or .forEach (lines 10, 143); then the two above
Throws(state) ==
  IF ~Has(state, "mainModules") THEN TRUE
  ELSE IF Len(state.mainModules) = 0 THEN FALSE
  ELSE IF ~Has(state, "subModules") \/ ~Has(state, "connections") THEN TRUE
  ELSE \/ \E i \in 1..Len(state.connections) :
            ConnectionThrows(state, state.connections[i])
       \/ \E i \in 1..Len(state.subModules) :
            PlacementThrows(state, state.subModules[i])

\* mutant: the empty layout is not short-circuited
validateLayout_NoShortCircuit(state) == RunRules(state)

validateLayout(state) ==
  IF Throws(state) THEN TypeError
  ELSE IF Len(state.mainModules) = 0
  THEN <<ValidationError("warning", <<"No modules placed yet">>, Undefined)>>
  ELSE RunRules(state)

\* the result of the gate given the error findings
SwitchResult(state, errors) ==
  [canSwitch |-> Len(errors) = 0 /\ Len(state.mainModules) > 0,
   errors |-> errors]

\* mutant: the gate forgets to require a main module
canSwitchTo3D_NoModuleCheck(state) ==
  [SwitchResult(state, SelectSeq(validateLayout(state),
                                 LAMBDA e : e.type = "error"))
     EXCEPT !.canSwitch =
       SelectSeq(validateLayout(state), LAMBDA e : e.type = "error") = <<>>]

canSwitchTo3D(state) ==
  SwitchResult(state,
               SelectSeq(validateLayout(state), LAMBDA e : e.type = "error"))

(***************************************************************************)
(* The canvas (LayoutCanvas2D): the extent it gives a placed main module   *)
(* where it draws the module and its ports, lays the connection lines,     *)
(* clamps a dropped or dragged sub-module and tests containment at the end *)
(* of a sub-module drag.  Lengths are in hundredths of a metre.            *)
(***************************************************************************)
\* getDimensions of the connections layer (used by getPortPosition)
getDimensions(m) ==
  IF m.rotation = 90 \/ m.rotation = 270
  THEN [width |-> m.height, depth |-> m.width]
  ELSE [width |-> m.width, depth |-> m.height]

\* displayWidth and displayDepth of the main modules layer
displayWidth(module) ==
  IF module.rotation = 90 \/ module.rotation = 270
  THEN module.height ELSE module.width

displayDepth(module) ==
  IF module.rotation = 90 \/ module.rotation = 270
  THEN module.width ELSE module.height

\* parentW and parentH of handleDrop
parentW(parentModule) ==
  IF parentModule.rotation = 90 \/ parentModule.rotation = 270
  THEN parentModule.height ELSE parentModule.width

parentH(parentModule) ==
  IF parentModule.rotation = 90 \/ parentModule.rotation = 270
  THEN parentModule.width ELSE parentModule.height

\* dims of handleSubModuleDragEnd
dims(m) ==
  IF m.rotation = 90 \/ m.rotation = 270
  THEN [w |-> m.height, h |-> m.width]
  ELSE [w |-> m.width, h |-> m.height]

\* parentDims of a sub-module's onDragMove
parentDims(parent) ==
  IF parent.rotation = 90 \/ parent.rotation = 270
  THEN [w |-> parent.height, h |-> parent.width]
  ELSE [w |-> parent.width, h |-> parent.height]

\* the Rect drawn for each main module: its Group's key and its size
MainModuleRects(state) ==
  [i \in 1..Len(state.mainModules) |->
     [key    |-> state.mainModules[i].instanceId,
      width  |-> displayWidth(state.mainModules[i]),
      height |-> displayDepth(state.mainModules[i])]]

PIXELS_PER_METER == DFromInt(40)

GRID_SIZE == DFromDec(5, 10)

\* margin of handleDrop and of onDragMove; tolerance of handleSubModuleDragEnd
margin == Centi(10)

tolerance == Centi(15)

\* Math.max(margin, Math.min(relative, parentSize - size - margin)) where
\* relative is position - origin: margin when relative or the upper limit
\* is negative
Constrain(position, origin, parentSize, size) ==
  IF DLt(position, origin) \/ DLt(parentSize, size)
     \/ DLt(DSub(parentSize, size), margin)
  THEN margin
  ELSE DMax(margin, DMin(DSub(position, origin),
                         DSub(DSub(parentSize, size), margin)))

\* Math.round(value / GRID_SIZE) * GRID_SIZE, in hundredths
SnapToGrid(value) == 50 * MathRound(DDiv(value, GRID_SIZE))

\* relativeX and relativeY of handleDrop, and snappedX and snappedY of
\* onDragMove, in hundredths: metres is the position in metres, w and h the
\* extent the canvas gives the parent
SnappedInside(metres, parent, w, h, subModule) ==
  [x |-> SnapToGrid(Constrain(metres.x, Centi(parent.x), Centi(w),
                              Centi(subModule.width))),
   y |-> SnapToGrid(Constrain(metres.y, Centi(parent.y), Centi(h),
                              Centi(subModule.depth)))]

\* a position in pixels, in metres
Metres(pos) ==
  [x |-> DDiv(pos.x, PIXELS_PER_METER), y |-> DDiv(pos.y, PIXELS_PER_METER)]

\* e.target.position({...}) of onDragMove: the place, in pixels, of a
\* sub-module at the snapped place inside its parent
PositionInside(parent, snapped) ==
  [x |-> DMul(DAdd(Centi(parent.x), Centi(snapped.x)), PIXELS_PER_METER),
   y |-> DMul(DAdd(Centi(parent.y), Centi(snapped.y)), PIXELS_PER_METER)]

\* onDragMove of a sub-module's Group: where the node is after the pointer
\* took it to pos, in pixels; without a parent the handler returns at once
onDragMove(state, subModule, pos) ==
  LET parent == FindByInstanceId(state.mainModules,
                                 subModule.parentInstanceId)
  IN  IF parent = <<>> THEN pos
      ELSE PositionInside(parent[1],
             SnappedInside(Metres(pos), parent[1], parentDims(parent[1]).w,
                           parentDims(parent[1]).h, subModule))

\* abs >= m.x - tolerance for a Number abs (none is negative)
NotBefore(abs, origin) ==
  IF DLt(origin, tolerance) THEN TRUE
  ELSE DLe(DSub(origin, tolerance), abs)

\* abs + size <= m.x + dims.w + tolerance
NotBeyond(abs, size, origin, extent) ==
  DLe(DAdd(abs, size), DAdd(DAdd(origin, extent), tolerance))

\* the callback of find in handleSubModuleDragEnd: m can fully contain sub
CanContain(m, sub, abs) ==
  /\ NotBefore(abs.x, Centi(m.x))
  /\ NotBefore(abs.y, Centi(m.y))
  /\ NotBeyond(abs.x, Centi(sub.width), Centi(m.x), Centi(dims(m).w))
  /\ NotBeyond(abs.y, Centi(sub.depth), Centi(m.y), Centi(dims(m).h))

\* containingModule of handleSubModuleDragEnd, a list of none or one
containingModule(state, sub, abs) ==
  LET hits == SelectSeq(state.mainModules, LAMBDA m : CanContain(m, sub, abs))
  IN  IF hits = <<>> THEN <<>> ELSE <<Head(hits)>>

\* the state handed to onStateChange when a main module contains the
\* sub-module; relativeX and relativeY are kept in hundredths
Reparented(state, subModuleId, container, abs) ==
  [state EXCEPT !.subModules =
     [i \in 1..Len(state.subModules) |->
        IF state.subModules[i].instanceId = subModuleId
        THEN [state.subModules[i] EXCEPT
                !.parentInstanceId = container.instanceId,
                !.x = Hundredths(abs.x) - container.x,
                !.y = Hundredths(abs.y) - container.y]
        ELSE state.subModules[i]]]

\* the state handed to onStateChange when no main module contains it
Removed(state, subModuleId) ==
  [state EXCEPT
     !.subModules = SelectSeq(@, LAMBDA s : s.instanceId # subModuleId),
     !.selectedSubModuleId = IF @ = subModuleId THEN Null ELSE @]

\* the state handleSubModuleDragEnd hands to onStateChange
DragEndState(state, subModuleId, container, abs) ==
  IF container = <<>> THEN Removed(state, subModuleId)
  ELSE Reparented(state, subModuleId, container[1], abs)

(***************************************************************************)
(* The application state: the layout document held by the page             *)
(* (pages/Index), the pending port of the canvas, and what the last render *)
(* derived from the document: the findings shown in the validation panel   *)
(* and the toolbar's 3D gate.  stale holds from a change of the document   *)
(* to the render that follows it.  portChecks holds the calls made of      *)
(* canPortsConnect on its own: the argument pairs and the values returned  *)
(* so far.  drawn holds the rectangles the canvas drew for the main        *)
(* modules in the last render.  now is the clock Date.now() reads, in      *)
(* ticks: an instance id or connection id is made from one reading, and    *)
(* two gestures of the user never fall into the same tick.  solver holds   *)
(* one call of the 3D scene's solvePositionsWithMeasuredBounds: its        *)
(* arguments, its local variables and the place it has reached.            *)
(***************************************************************************)
VARIABLES layoutState, connectingPort, validationErrors, switchTo3D, stale,
          portChecks, drawn, now, solver

vars == <<layoutState, connectingPort, validationErrors, switchTo3D, stale,
          portChecks, drawn, now, solver>>

\* useState's initial pending port, null: the pending port is kept as a list
\* of no port or one
NoPort == <<>>

\* the pending port { moduleId, portId }
PendingPort(moduleId, portId) == <<[moduleId |-> moduleId, portId |-> portId]>>

\* the 3D scene is not mounted: solvePositionsWithMeasuredBounds is not called
NotCalled == [pc |-> "idle"]

\* useState's initial document
InitialLayout == LayoutState(4, <<>>, <<>>, <<>>, Null, Null, Null)

\* the page was mounted and rendered with the initial document, and the
\* effect then restored the document `data` handed over by the router
Restored(data) ==
  /\ layoutState = data
  /\ connectingPort = NoPort
  /\ validationErrors = <<>>
  /\ switchTo3D = [canSwitch |-> FALSE, errors |-> <<>>]
  /\ stale = TRUE
  /\ portChecks = [args |-> <<>>, results |-> <<>>]
  /\ drawn = <<>>
  /\ now = 1
  /\ solver = NotCalled

\* a render whose validation uses the document's own connections array as its
\* work list and leaves it empty
Render_Consuming ==
  /\ stale
  /\ validationErrors' = validateLayout(layoutState)
  /\ switchTo3D' = canSwitchTo3D([layoutState EXCEPT !.connections = <<>>])
  /\ layoutState' = [layoutState EXCEPT !.connections = <<>>]
  /\ stale' = FALSE
  /\ drawn' = MainModuleRects(layoutState)
  /\ UNCHANGED <<connectingPort, portChecks, solver, now>>

\* a render of the page: Index validates the document, Toolbar asks the gate
\* (Toolbar.tsx:29) and the canvas draws the main modules; when Index throws,
\* Toolbar and canvas are not rendered
Render ==
  /\ stale
  /\ validationErrors' = validateLayout(layoutState)
  /\ switchTo3D' = IF Throws(layoutState) THEN switchTo3D
                   ELSE canSwitchTo3D(layoutState)
  /\ drawn' = IF Throws(layoutState) THEN drawn
              ELSE MainModuleRects(layoutState)
  /\ stale' = FALSE
  /\ UNCHANGED <<layoutState, connectingPort, portChecks, solver, now>>

\* Toolbar.handleOpen, reader.onload: the text of the chosen file is parsed
\* and, if that succeeds, replaces the document as it is.  The toolbar is
\* there to be clicked once the page has rendered without throwing.
handleOpen(file) ==
  /\ ~stale
  /\ validationErrors # TypeError
  /\ IF file.parses
     THEN layoutState' = file.data /\ stale' = TRUE
     ELSE UNCHANGED <<layoutState, stale>>
  /\ UNCHANGED <<connectingPort, validationErrors, switchTo3D, portChecks, solver,
                 drawn, now>>

\* onStateChange(next): the page's setLayoutState, followed by a render
onStateChange(next) ==
  /\ layoutState' = next
  /\ stale' = TRUE
  /\ UNCHANGED <<connectingPort, validationErrors, switchTo3D, portChecks, solver,
                 drawn, now>>

\* onClick of a main module's Group on the canvas
clickMainModule(instanceId) ==
  /\ ~stale
  /\ \E i \in 1..Len(layoutState.mainModules) :
       layoutState.mainModules[i].instanceId = instanceId
  /\ onStateChange([layoutState EXCEPT !.selectedMainModuleId = instanceId,
                                       !.selectedSubModuleId = Null])

\* onDblClick of a main module's Group on the canvas: zooms into the module
dblClickMainModule(instanceId) ==
  /\ ~stale
  /\ \E i \in 1..Len(layoutState.mainModules) :
       layoutState.mainModules[i].instanceId = instanceId
  /\ onStateChange([layoutState EXCEPT !.zoomedModuleId = instanceId,
                                       !.selectedMainModuleId = instanceId,
                                       !.selectedSubModuleId = Null])

\* onClick of a sub-module's Group on the canvas
clickSubModule(instanceId) ==
  /\ ~stale
  /\ \E i \in 1..Len(layoutState.subModules) :
       layoutState.subModules[i].instanceId = instanceId
  /\ onStateChange([layoutState EXCEPT !.selectedSubModuleId = instanceId,
                                       !.selectedMainModuleId = Null])

\* the rotation that does not wrap around at 360
RotateSelected_NoWrap(state) ==
  [state EXCEPT !.mainModules =
     [i \in 1..Len(state.mainModules) |->
        IF state.mainModules[i].instanceId = state.selectedMainModuleId
        THEN [state.mainModules[i] EXCEPT !.rotation = @ + 90]
        ELSE state.mainModules[i]]]

\* the state after (rotation + 90) % 360 of the selected main module
RotateSelected(state) ==
  [state EXCEPT !.mainModules =
     [i \in 1..Len(state.mainModules) |->
        IF state.mainModules[i].instanceId = state.selectedMainModuleId
        THEN [state.mainModules[i] EXCEPT !.rotation = (@ + 90) % 360]
        ELSE state.mainModules[i]]]

\* the deletion that leaves the sub-modules of the deleted module in place
DeleteSelectedMainModule_KeepSubModules(state) ==
  [state EXCEPT
     !.mainModules = SelectSeq(@, LAMBDA m :
                       m.instanceId # state.selectedMainModuleId),
     !.connections = SelectSeq(@, LAMBDA c :
                       /\ c.fromModuleId # state.selectedMainModuleId
                       /\ c.toModuleId # state.selectedMainModuleId),
     !.selectedMainModuleId = Null]

\* the deletion that leaves the connections of the deleted module in place
DeleteSelectedMainModule_KeepConnections(state) ==
  [state EXCEPT
     !.mainModules = SelectSeq(@, LAMBDA m :
                       m.instanceId # state.selectedMainModuleId),
     !.subModules = SelectSeq(@, LAMBDA sub :
                      sub.parentInstanceId # state.selectedMainModuleId),
     !.selectedMainModuleId = Null]

\* the state handed to onStateChange when the selected main module is
\* deleted (the same object literal in handleKeyDown and handleDeleteSelected)
DeleteSelectedMainModule(state) ==
  [state EXCEPT
     !.mainModules = SelectSeq(@, LAMBDA m :
                       m.instanceId # state.selectedMainModuleId),
     !.subModules = SelectSeq(@, LAMBDA sub :
                      sub.parentInstanceId # state.selectedMainModuleId),
     !.connections = SelectSeq(@, LAMBDA c :
                       /\ c.fromModuleId # state.selectedMainModuleId
                       /\ c.toModuleId # state.selectedMainModuleId),
     !.selectedMainModuleId = Null]

\* the state handed to onStateChange when the selected sub-module is deleted
DeleteSelectedSubModule(state) ==
  [state EXCEPT
     !.subModules = SelectSeq(@, LAMBDA sub :
                      sub.instanceId # state.selectedSubModuleId),
     !.selectedSubModuleId = Null]

\* the canvas's keydown listener, for the keys r, R, Delete, Backspace and
\* Escape (Space only starts panning)
handleKeyDown(key) ==
  /\ ~stale
  /\ IF layoutState.selectedMainModuleId = Null
        /\ layoutState.selectedSubModuleId = Null
     THEN UNCHANGED vars
     ELSE IF key \in {"r", "R"}
     THEN IF layoutState.selectedMainModuleId # Null
          THEN onStateChange(RotateSelected(layoutState))
          ELSE UNCHANGED vars
     ELSE IF key \in {"Delete", "Backspace"}
     THEN IF layoutState.selectedMainModuleId # Null
          THEN onStateChange(DeleteSelectedMainModule(layoutState))
          ELSE onStateChange(DeleteSelectedSubModule(layoutState))
     ELSE IF key = "Escape"
     THEN IF connectingPort # NoPort
          THEN /\ connectingPort' = NoPort
               /\ UNCHANGED <<layoutState, validationErrors, switchTo3D,
                              stale, portChecks, solver, drawn, now>>
          ELSE IF layoutState.zoomedModuleId # Null
          THEN onStateChange([layoutState EXCEPT
                                !.zoomedModuleId = Null,
                                !.selectedMainModuleId = Null,
                                !.selectedSubModuleId = Null])
          ELSE onStateChange([layoutState EXCEPT
                                !.selectedMainModuleId = Null,
                                !.selectedSubModuleId = Null])
     ELSE UNCHANGED vars

\* the toolbar's Delete button
handleDeleteSelected ==
  /\ ~stale
  /\ IF layoutState.selectedMainModuleId = Null
        /\ layoutState.selectedSubModuleId = Null
     THEN UNCHANGED vars
     ELSE IF layoutState.selectedMainModuleId # Null
     THEN onStateChange(DeleteSelectedMainModule(layoutState))
     ELSE onStateChange(DeleteSelectedSubModule(layoutState))

\* the toolbar's Rotate button
handleRotateSelected ==
  /\ ~stale
  /\ IF layoutState.selectedMainModuleId = Null
     THEN UNCHANGED vars
     ELSE onStateChange(RotateSelected(layoutState))

\* the toolbar's Clear All button; confirmed is the answer to confirm()
handleClearAll(confirmed) ==
  /\ ~stale
  /\ IF Len(layoutState.mainModules) = 0 /\ Len(layoutState.subModules) = 0
     THEN UNCHANGED vars
     ELSE IF confirmed
     THEN onStateChange([layoutState EXCEPT !.mainModules = <<>>,
                                            !.subModules = <<>>,
                                            !.connections = <<>>,
                                            !.selectedMainModuleId = Null,
                                            !.selectedSubModuleId = Null])
     ELSE UNCHANGED vars

\* canPortsConnect called with the next pair of arguments
CheckPorts ==
  /\ Len(portChecks.results) < Len(portChecks.args)
  /\ portChecks' =
       [portChecks EXCEPT !.results =
          Append(@, canPortsConnect(
                      portChecks.args[Len(portChecks.results) + 1][1],
                      portChecks.args[Len(portChecks.results) + 1][2]))]
  /\ UNCHANGED <<layoutState, connectingPort, validationErrors, switchTo3D,
                 stale, drawn, now, solver>>

\* existingConnection of handlePortClick: the connections that join the
\* pending port's module and the clicked module, in either direction
ExistingConnections(state, pending, moduleId) ==
  SelectSeq(state.connections, LAMBDA c :
    \/ c.fromModuleId = pending.moduleId /\ c.toModuleId = moduleId
    \/ c.fromModuleId = moduleId /\ c.toModuleId = pending.moduleId)

\* handlePortClick with the existing-connection test left out
handlePortClick_NoExistingCheck(moduleId, portId) ==
  /\ ~stale
  /\ \E i \in 1..Len(layoutState.mainModules) :
       /\ layoutState.mainModules[i].instanceId = moduleId
       /\ FindPort(layoutState.mainModules[i].ports, portId) # <<>>
  /\ IF connectingPort = NoPort
     THEN /\ connectingPort' = PendingPort(moduleId, portId)
          /\ UNCHANGED <<layoutState, validationErrors, switchTo3D, stale,
                         portChecks, solver, drawn, now>>
     ELSE IF connectingPort[1].moduleId = moduleId
     THEN /\ connectingPort' = NoPort
          /\ UNCHANGED <<layoutState, validationErrors, switchTo3D, stale,
                         portChecks, solver, drawn, now>>
     ELSE /\ layoutState' =
               [layoutState EXCEPT !.connections =
                  Append(@, Connection("conn-" \o ToString(now),
                                       connectingPort[1].moduleId,
                                       connectingPort[1].portId,
                                       moduleId, portId))]
          /\ stale' = TRUE
          /\ connectingPort' = NoPort
          /\ now' = now + 1
          /\ UNCHANGED <<validationErrors, switchTo3D, portChecks, solver, drawn>>

\* handlePortClick, the onClick of a port's Circle on the canvas (the click
\* does not reach the module's Group); the new connection's id is made from
\* a reading of the clock
handlePortClick(moduleId, portId) ==
  /\ ~stale
  /\ \E i \in 1..Len(layoutState.mainModules) :
       /\ layoutState.mainModules[i].instanceId = moduleId
       /\ FindPort(layoutState.mainModules[i].ports, portId) # <<>>
  /\ IF connectingPort = NoPort
     THEN /\ connectingPort' = PendingPort(moduleId, portId)
          /\ UNCHANGED <<layoutState, validationErrors, switchTo3D, stale,
                         portChecks, solver, drawn, now>>
     ELSE IF connectingPort[1].moduleId = moduleId
     THEN /\ connectingPort' = NoPort
          /\ UNCHANGED <<layoutState, validationErrors, switchTo3D, stale,
                         portChecks, solver, drawn, now>>
     ELSE IF ExistingConnections(layoutState, connectingPort[1], moduleId) # <<>>
     THEN /\ connectingPort' = NoPort
          /\ UNCHANGED <<layoutState, validationErrors, switchTo3D, stale,
                         portChecks, solver, drawn, now>>
     ELSE /\ layoutState' =
               [layoutState EXCEPT !.connections =
                  Append(@, Connection("conn-" \o ToString(now),
                                       connectingPort[1].moduleId,
                                       connectingPort[1].portId,
                                       moduleId, portId))]
          /\ stale' = TRUE
          /\ connectingPort' = NoPort
          /\ now' = now + 1
          /\ UNCHANGED <<validationErrors, switchTo3D, portChecks, solver, drawn>>

\* newModule of handleDrop: the main module of the catalogue at the snapped
\* place, with an instance id made from the clock's reading t
NewMainModule(module, metres, t) ==
  PlacedMainModule(module, module.id \o "-" \o ToString(t),
                   SnapToGrid(metres.x), SnapToGrid(metres.y), 0)

\* the parent handleDrop gives a dropped sub-module, a list of none or one,
\* with the test of allowedSubModules left out
DropParent_NoAllowedCheck(state, module) ==
  IF state.zoomedModuleId = Null THEN <<>>
  ELSE FindByInstanceId(state.mainModules, state.zoomedModuleId)

\* the parent handleDrop gives a dropped sub-module, a list of none or one:
\* none when no module is zoomed, when the zoomed module is not found and
\* when it does not allow the sub-module
DropParent(state, module) ==
  IF state.zoomedModuleId = Null THEN <<>>
  ELSE LET parentModule == FindByInstanceId(state.mainModules,
                                            state.zoomedModuleId)
       IN  IF parentModule = <<>> THEN <<>>
           ELSE IF ~Includes(parentModule[1].allowedSubModules, module.id)
           THEN <<>>
           ELSE parentModule

\* newSubModule of handleDrop
NewSubModule(module, parentModule, metres, t) ==
  LET snapped == SnappedInside(metres, parentModule, parentW(parentModule),
                               parentH(parentModule), module)
  IN  PlacedSubModule(module, module.id \o "-" \o ToString(t),
                      parentModule.instanceId, snapped.x, snapped.y, 0)

\* handleDrop, the canvas's onDrop: moduleType and moduleData (a list of no
\* module or one) are what the drag carries, canvas is the place of the drop
\* on the canvas in pixels
handleDrop(moduleType, moduleData, canvas) ==
  /\ ~stale
  /\ IF moduleData = <<>> \/ moduleType \notin {"main", "sub"}
     THEN UNCHANGED vars
     ELSE IF moduleType = "main"
     THEN /\ layoutState' =
               [layoutState EXCEPT !.mainModules =
                  Append(@, NewMainModule(moduleData[1], Metres(canvas), now))]
          /\ stale' = TRUE
          /\ now' = now + 1
          /\ UNCHANGED <<connectingPort, validationErrors, switchTo3D,
                         portChecks, solver, drawn>>
     ELSE IF DropParent(layoutState, moduleData[1]) = <<>>
     THEN UNCHANGED vars
     ELSE /\ layoutState' =
               [layoutState EXCEPT !.subModules =
                  Append(@, NewSubModule(moduleData[1],
                                         DropParent(layoutState, moduleData[1])[1],
                                         Metres(canvas), now))]
          /\ stale' = TRUE
          /\ now' = now + 1
          /\ UNCHANGED <<connectingPort, validationErrors, switchTo3D,
                         portChecks, solver, drawn>>

\* handleMainModuleDragEnd(moduleId, e) with e.target at target (pixels)
handleMainModuleDragEnd(moduleId, target) ==
  /\ ~stale
  /\ \E i \in 1..Len(layoutState.mainModules) :
       layoutState.mainModules[i].instanceId = moduleId
  /\ \E snapped \in {[x |-> SnapToGrid(Metres(target).x),
                       y |-> SnapToGrid(Metres(target).y)]} :
       onStateChange([layoutState EXCEPT !.mainModules =
         [i \in 1..Len(layoutState.mainModules) |->
            IF layoutState.mainModules[i].instanceId = moduleId
            THEN [layoutState.mainModules[i] EXCEPT !.x = snapped.x,
                                                    !.y = snapped.y]
            ELSE layoutState.mainModules[i]]])

\* handleSubModuleDragEnd(subModuleId, e) with e.target at target (pixels)
handleSubModuleDragEnd(subModuleId, target) ==
  LET sub == FindByInstanceId(layoutState.subModules, subModuleId)
  IN  IF sub = <<>> THEN UNCHANGED vars
      ELSE \E abs \in {Metres(target)} :
             \E container \in {containingModule(layoutState, sub[1], abs)} :
               onStateChange(DragEndState(layoutState, subModuleId,
                                          container, abs))

\* a drag of the i-th sub-module's Group that the pointer ends at pos
\* (pixels): onDragMove places the node, onDragEnd reads its position
dragSubModule(i, pos) ==
  /\ ~stale
  /\ i \in 1..Len(layoutState.subModules)
  /\ \E target \in {onDragMove(layoutState, layoutState.subModules[i],
                              [x |-> DFromInt(pos[1]), y |-> DFromInt(pos[2])])} :
       handleSubModuleDragEnd(layoutState.subModules[i].instanceId, target)

(***************************************************************************)
(* Bounded families of layout documents.                                   *)
(***************************************************************************)
\* the crew sizes the toolbar's select offers
CrewSizes == {2, 3, 4, 5, 6, 8}

RECURSIVE SeqsUpTo(_, _)
\* the sequences over S of length at most n
SeqsUpTo(S, n) ==
  IF n = 0 THEN {<<>>}
  ELSE LET shorter == SeqsUpTo(S, n - 1)
       IN  shorter \cup {Append(q, x) : q \in shorter, x \in S}

NoRepeat(q) == \A i, j \in 1..Len(q) : i # j => q[i] # q[j]

InstanceNames == <<"A", "B", "C", "D", "E", "F">>

NameIndex(name) == CHOOSE k \in 1..Len(InstanceNames) : InstanceNames[k] = name

MaxModules == 3

MaxConnections == 2

ModuleIds == {InstanceNames[i] : i \in 1..MaxModules}

\* an id no main module of a document carries
Ghost == "X"

\* main modules of one type standing clear of each other, in every order
ClearModules(type) ==
  {[i \in 1..Len(q) |-> PlacedMainModule(type, q[i], 300 * NameIndex(q[i]), 0, 0)] :
     q \in {r \in SeqsUpTo(ModuleIds, MaxModules) : NoRepeat(r)}}

ConnectionNames == <<"conn-1", "conn-2", "conn-3", "conn-4", "conn-5">>

\* connections, east port to west port, along a list of pairs of ids
Links(type, pairs) ==
  [i \in 1..Len(pairs) |->
     Connection(ConnectionNames[i], pairs[i][1], type.ports[3].id,
                pairs[i][2], type.ports[4].id)]

\* pairs of two different ids, the ghost included
IdPairs == {p \in (ModuleIds \cup {Ghost}) \X (ModuleIds \cup {Ghost}) : p[1] # p[2]}

ConnectivityDocuments ==
  {LayoutState(4, mains, <<>>, Links(Galley, pairs), Null, Null, Null) :
     mains \in ClearModules(Galley),
     pairs \in SeqsUpTo(IdPairs, MaxConnections)}

InitConnectivity == \E data \in ConnectivityDocuments : Restored(data)

SpecConnectivity == InitConnectivity /\ [][Render]_vars

RECURSIVE SubLists(_)
\* the lists obtained from a list by dropping some of its elements
SubLists(list) ==
  IF list = <<>> THEN {<<>>}
  ELSE LET rest == SubLists(Tail(list))
       IN  rest \cup {<<Head(list)>> \o q : q \in rest}

Prefixes(list, n) == {SubSeq(list, 1, k) : k \in 0..IntMin(n, Len(list))}

\* a station: modules of the catalogue in a row, clear of each other
StationTypes == <<Wardroom, Hygiene, Galley, Medical, Storage, Maintenance>>

Station ==
  [i \in 1..Len(StationTypes) |->
     PlacedMainModule(StationTypes[i], InstanceNames[i], 300 * i, 0, 0)]

\* each module's east port joined to the west port of the next one
ChainLinks ==
  [i \in 1..(Len(Station) - 1) |->
     Connection(ConnectionNames[i], Station[i].instanceId, Station[i].ports[3].id,
                Station[i + 1].instanceId, Station[i + 1].ports[4].id)]

MaxStation == 4

\* sub-modules of a document: none, one in the first module, one orphan
GateSubModules ==
  {<<>>,
   <<PlacedSubModule(Locker, "locker-1", Station[1].instanceId, 50, 50, 0)>>,
   <<PlacedSubModule(ShowerStall, "shower-1", Ghost, 50, 50, 0)>>}

GateDocuments ==
  {LayoutState(crew, mains, subs, conns, Null, Null, Null) :
     crew \in CrewSizes,
     mains \in Prefixes(Station, MaxStation),
     subs \in GateSubModules,
     conns \in SubLists(SubSeq(ChainLinks, 1, MaxStation - 1))}

InitGate == \E data \in GateDocuments : Restored(data)

SpecGate == InitGate /\ [][Render]_vars

\* C1: a rendered document without main modules shows exactly one finding, a
\* warning, whatever its sub-modules, connections and crew size are.
C1_EmptyLayoutOneWarning ==
  (~stale /\ Len(layoutState.mainModules) = 0) =>
    /\ Len(validationErrors) = 1
    /\ validationErrors[1].type = "warning"
    /\ validationErrors[1].message = <<"No modules placed yet">>

C1_Witness ==
  /\ ~stale
  /\ Len(layoutState.mainModules) = 0
  /\ Len(layoutState.subModules) > 0
  /\ Len(layoutState.connections) > 1
  /\ layoutState.crewSize = 8

IsError(e) == e.type = "error"

\* C2: the gate allows the switch exactly when the findings of the document
\* hold no error and the document has a main module; the errors it returns
\* are the error findings, in order; an empty layout is never allowed.
C2_GateIffNoErrorAndNonEmpty ==
  ~stale =>
    /\ switchTo3D.errors = SelectSeq(validationErrors, IsError)
    /\ switchTo3D.canSwitch <=>
         /\ \A i \in 1..Len(validationErrors) : ~IsError(validationErrors[i])
         /\ Len(layoutState.mainModules) >= 1
    /\ Len(layoutState.mainModules) = 0 => ~switchTo3D.canSwitch

C2_Witness ==
  /\ ~stale
  /\ switchTo3D.canSwitch
  /\ Len(layoutState.mainModules) = 4

(***************************************************************************)
(* Connectivity (C3, C4).  The graph of the claims: its nodes are the      *)
(* instance ids of the main modules, its edges the connections between two *)
(* nodes.                                                                  *)
(***************************************************************************)
NodesOf(state) ==
  {state.mainModules[i].instanceId : i \in 1..Len(state.mainModules)}

EdgesOf(state) ==
  {<<state.connections[i].fromModuleId, state.connections[i].toModuleId>> :
     i \in 1..Len(state.connections)}

RECURSIVE ReachableFrom(_, _)
\* the nodes joined to a node of S by a path of edges, S included
ReachableFrom(state, S) ==
  LET next == S \cup {n \in NodesOf(state) :
                        \E e \in EdgesOf(state) :
                          \/ e[1] \in S /\ e[2] = n
                          \/ e[2] \in S /\ e[1] = n}
  IN  IF next = S THEN S ELSE ReachableFrom(state, next)

SingleComponent(state) ==
  NodesOf(state) \subseteq ReachableFrom(state, {state.mainModules[1].instanceId})

ConnectivityErrors(errors) ==
  SelectSeq(errors, LAMBDA e :
    e.message[1] = "main module(s) not connected to station network")

\* the main modules no path joins to the first one, in list order
Unreachable(state) ==
  SelectSeq(InstanceIds(state.mainModules), LAMBDA id :
    id \notin ReachableFrom(state, {state.mainModules[1].instanceId}))

\* C3: with at least one main module, a rendered document shows a connectivity
\* error exactly when its main modules are not one connected component of the
\* graph of main-module ids and connections; it shows at most one, and none
\* for a single main module, also when connections name ids not in the layout.
C3_ConnectivityErrorIffNotOneComponent ==
  (~stale /\ Len(layoutState.mainModules) >= 1) =>
    LET found == ConnectivityErrors(validationErrors)
    IN  /\ Len(found) <= 1
        /\ Len(found) = 1 <=> ~SingleComponent(layoutState)
        /\ Len(layoutState.mainModules) = 1 => Len(found) = 0

\* C4: the connectivity error carries the number of main modules not reachable
\* from the first one and is tagged with the first of them in list order; A, B,
\* C with one connection between A and B give one error, count 1, tagged C.
C4_FloatingCountAndTag ==
  (~stale /\ Len(layoutState.mainModules) >= 1) =>
    LET found == ConnectivityErrors(validationErrors)
    IN  /\ \A i \in 1..Len(found) :
             /\ found[i].message[2] = Len(Unreachable(layoutState))
             /\ found[i].moduleId = Unreachable(layoutState)[1]
        /\ ( /\ InstanceIds(layoutState.mainModules) = <<"A", "B", "C">>
             /\ EdgesOf(layoutState) \in {{<<"A", "B">>}, {<<"B", "A">>}} )
           => /\ Len(found) = 1
              /\ found[1].message[2] = 1
              /\ found[1].moduleId = "C"

(***************************************************************************)
(* Overlap (C5).  Two main modules, the first at the origin or at (1, 1),  *)
(* the second at places around it: apart, touching, penetrating by exactly *)
(* the tolerance, and across each other.                                   *)
(***************************************************************************)
\* the modules of the examples: footprints of 1 x 1 and of 2 x 1 metres
Unit == MainModule("unit", "Unit", 100, 100, 200, 1000, <<>>, <<>>)

Bar == MainModule("bar", "Bar", 200, 100, 200, 1000, <<>>, <<>>)

OverlapXs == {0, 50, 99, 100, 150, 200, 201, 202}

OverlapYs == {0, 50, 150, 201}

OverlapDocuments ==
  {LayoutState(4, <<PlacedMainModule(t1, "A", p1, p1, r1),
                    PlacedMainModule(t2, "B", x2, y2, r2)>>,
               <<>>, <<>>, Null, Null, Null) :
     t1 \in {Unit, Bar, Maintenance}, p1 \in {0, 100}, r1 \in {0, 90},
     t2 \in {Unit, Maintenance}, r2 \in {0, 180, 270},
     x2 \in OverlapXs, y2 \in OverlapYs}

InitOverlap == \E data \in OverlapDocuments : Restored(data)

SpecOverlap == InitOverlap /\ [][Render]_vars

\* the footprint of a placed module, in hundredths of a metre: width and depth
\* swapped at rotation 90 or 270, unswapped at 0 or 180
Footprint(m) ==
  IF m.rotation \in {90, 270} THEN [w |-> m.depth, d |-> m.width]
  ELSE [w |-> m.width, d |-> m.depth]

\* how far the intervals [lo1, lo1 + len1] and [lo2, lo2 + len2] penetrate
\* each other (negative when they are apart)
Penetration(lo1, len1, lo2, len2) == IntMin(lo1 + len1 - lo2, lo2 + len2 - lo1)

PenetrationX(m1, m2) == Penetration(m1.x, Footprint(m1).w, m2.x, Footprint(m2).w)

PenetrationY(m1, m2) == Penetration(m1.y, Footprint(m1).d, m2.y, Footprint(m2).d)

\* the tolerance of 0.01 m, in hundredths
Tolerance == 1

OverlapReported ==
  \E i \in 1..Len(validationErrors) :
    validationErrors[i].message[1] = "overlapping main module(s) detected"

\* a document of two modules at the given places
IsPair(id1, x1, y1, r1, id2, x2, y2, r2) ==
  /\ Len(layoutState.mainModules) = 2
  /\ layoutState.mainModules[1].id = id1
  /\ layoutState.mainModules[1].x = x1 /\ layoutState.mainModules[1].y = y1
  /\ layoutState.mainModules[1].rotation = r1
  /\ layoutState.mainModules[2].id = id2
  /\ layoutState.mainModules[2].x = x2 /\ layoutState.mainModules[2].y = y2
  /\ layoutState.mainModules[2].rotation = r2

\* the examples: 1 x 1 modules at (0,0) and (0.5,0.5) are flagged, at (0,0)
\* and (1.0,0) they are not; a 2 x 1 module at rotation 90 is 1 wide, 2 deep
OverlapExamples ==
  /\ IsPair("unit", 0, 0, 0, "unit", 50, 50, 0) => OverlapReported
  /\ IsPair("unit", 0, 0, 0, "unit", 100, 0, 0) => ~OverlapReported
  /\ IsPair("bar", 0, 0, 90, "unit", 0, 150, 0) => OverlapReported
  /\ IsPair("bar", 0, 0, 90, "unit", 150, 0, 0) => ~OverlapReported

\* the overlap rule reports what doModulesOverlap says of the pair, and that
\* is the same in both orders
OverlapSymmetric ==
  /\ OverlapReported = doModulesOverlap(layoutState.mainModules[1],
                                        layoutState.mainModules[2])
  /\ OverlapReported = doModulesOverlap(layoutState.mainModules[2],
                                        layoutState.mainModules[1])

\* C5 as claimed: two main modules are flagged exactly when their footprints
\* (width and depth swapped at rotation 90 or 270) penetrate each other by
\* more than the tolerance on both axes; the test is symmetric; the examples.
C5_OverlapIffPenetration ==
  (~stale /\ Len(layoutState.mainModules) = 2) =>
    /\ OverlapReported <=>
         /\ PenetrationX(layoutState.mainModules[1],
                         layoutState.mainModules[2]) > Tolerance
         /\ PenetrationY(layoutState.mainModules[1],
                         layoutState.mainModules[2]) > Tolerance
    /\ OverlapSymmetric
    /\ OverlapExamples

\* C5 amended: two main modules are flagged when their footprints penetrate
\* each other by more than the tolerance on both axes and are not flagged when
\* they penetrate by less than the tolerance, or are apart, on an axis; at
\* exactly the tolerance the rounding of the sums decides.  The test is
\* symmetric, and the examples hold.
C5_OverlapOutsideTolerance ==
  (~stale /\ Len(layoutState.mainModules) = 2) =>
    /\ ( /\ PenetrationX(layoutState.mainModules[1],
                         layoutState.mainModules[2]) > Tolerance
         /\ PenetrationY(layoutState.mainModules[1],
                         layoutState.mainModules[2]) > Tolerance )
       => OverlapReported
    /\ ( \/ PenetrationX(layoutState.mainModules[1],
                         layoutState.mainModules[2]) < Tolerance
         \/ PenetrationY(layoutState.mainModules[1],
                         layoutState.mainModules[2]) < Tolerance )
       => ~OverlapReported
    /\ OverlapSymmetric
    /\ OverlapExamples

\* the 2 x 1 module at rotation 90 is found across a module 1.5 m below it
C5_Witness ==
  /\ ~stale
  /\ IsPair("bar", 0, 0, 90, "unit", 0, 150, 0)
  /\ OverlapReported

(***************************************************************************)
(* Parent capacity (C6).  A private recreation module (1.20 m3) and a      *)
(* module of 10.0 m3, with up to MaxChildren sub-modules between them.     *)
(***************************************************************************)
\* the parent of the example: a volume of 10.0 m3
Capsule == MainModule("capsule", "Capsule", 200, 200, 250, 1000, <<>>, <<>>)

\* sub-modules of 9.5, 10.1 and 0.5 m3 for the example
Tank(volume) == SubModule("tank", "Tank", 50, 50, 100, volume, FALSE)

MaxChildren == 4

SubModuleNames == <<"sub-1", "sub-2", "sub-3", "sub-4", "sub-5">>

\* what a document may hold: a sub-module and the parent it is placed in
CapacityItems ==
  {<<FoodPrep, "A">>, <<MirrorStation, "A">>,
   <<Tank(950), "B">>, <<Tank(1010), "B">>, <<Tank(50), "B">>}

CapacityDocuments ==
  {LayoutState(4, <<PlacedMainModule(Recreation, "A", 0, 0, 0),
                    PlacedMainModule(Capsule, "B", 300, 0, 0)>>,
               [i \in 1..Len(items) |->
                  PlacedSubModule(items[i][1], SubModuleNames[i], items[i][2],
                                  0, 0, 0)],
               <<>>, Null, Null, Null) :
     items \in SeqsUpTo(CapacityItems, MaxChildren)}

InitCapacity == \E data \in CapacityDocuments : Restored(data)

SpecCapacity == InitCapacity /\ [][Render]_vars

RECURSIVE TotalVolume(_)
\* the sum of the volumes of a list of modules, in hundredths of a m3
TotalVolume(list) ==
  IF list = <<>> THEN 0 ELSE Head(list).volume + TotalVolume(Tail(list))

\* S of the claim: the volume of the sub-modules placed in a main module
ChildVolume(state, id) ==
  TotalVolume(SelectSeq(state.subModules, LAMBDA sub : sub.parentInstanceId = id))

\* the capacity findings of one severity shown for a main module
CapacityReports(id, type) ==
  SelectSeq(validationErrors, LAMBDA e :
    /\ e.message[1] \in {"at % capacity", "exceeds capacity"}
    /\ e.moduleId = id
    /\ e.type = type)

\* what the claim expects for a main module of volume V holding S
CapacityAsClaimed(id, S, V) ==
  /\ (10 * S > 9 * V /\ S <= V) =>
       /\ Len(CapacityReports(id, "warning")) = 1
       /\ Len(CapacityReports(id, "error")) = 0
  /\ S > V =>
       /\ Len(CapacityReports(id, "error")) = 1
       /\ Len(CapacityReports(id, "warning")) = 0
  /\ 10 * S <= 9 * V =>
       /\ Len(CapacityReports(id, "warning")) = 0
       /\ Len(CapacityReports(id, "error")) = 0
  /\ (V = 1000 /\ S = 950) => CapacityReports(id, "warning")[1].message[3] = 95

\* C6: every main module gets exactly one capacity warning when the volume S
\* of its sub-modules is above 90% of its volume V and at most V, exactly one
\* error when S > V, nothing when S <= 0.9 V, and never both; with V = 10.0,
\* S = 9.5 gives a warning at 95% and S = 10.1 one error and no warning.
C6_CapacityWarningAndError ==
  ~stale =>
    \A i \in 1..Len(layoutState.mainModules) :
      CapacityAsClaimed(layoutState.mainModules[i].instanceId,
                        ChildVolume(layoutState,
                                    layoutState.mainModules[i].instanceId),
                        layoutState.mainModules[i].volume)

(***************************************************************************)
(* Crew volume (C7).  Stations of medical, recreation and storage modules, *)
(* and the single modules of 39.9 and 40.0 m3 of the example.              *)
(***************************************************************************)
Block(volume) == MainModule("block", "Block", 400, 400, 250, volume, <<>>, <<>>)

MaxCrewModules == 5

\* the main modules of a list of types, in a row, clear of each other
Row(types) ==
  [i \in 1..Len(types) |->
     PlacedMainModule(types[i], InstanceNames[i], 500 * i, 0, 0)]

CrewDocuments ==
  {LayoutState(crew, Row(types), <<>>, <<>>, Null, Null, Null) :
     crew \in {2, 4},
     types \in SeqsUpTo({Medical, Recreation, Storage}, MaxCrewModules)
                 \cup {<<Block(3990)>>, <<Block(4000)>>}}

InitCrew == \E data \in CrewDocuments : Restored(data)

SpecCrew == InitCrew /\ [][Render]_vars

CrewVolumeReports ==
  SelectSeq(validationErrors, LAMBDA e : e.message[1] = "Insufficient volume")

\* what the claim expects of a layout of the given total volume (hundredths
\* of a m3) and crew size
CrewVolumeAsClaimed(total, crewSize) ==
  /\ total < crewSize * 1000 =>
       /\ Len(CrewVolumeReports) = 1
       /\ CrewVolumeReports[1].type = "error"
  /\ total >= crewSize * 1000 => Len(CrewVolumeReports) = 0
  /\ (crewSize = 4 /\ total = 3990) =>
       /\ CrewVolumeReports[1].message[2] = 399
       /\ CrewVolumeReports[1].message[3] = 400

\* C7: a non-empty layout shows exactly one crew-volume error when the sum of
\* the volumes of its main modules is below crewSize x 10.0 m3 and none when
\* the sum is equal or greater; with a crew of 4, a total of 39.9 gives one
\* error carrying 39.9 and 40.0, a total of 40.0 gives none.
C7_CrewVolumeStrictlyLess ==
  (~stale /\ Len(layoutState.mainModules) >= 1) =>
    CrewVolumeAsClaimed(TotalVolume(layoutState.mainModules),
                        layoutState.crewSize)

(***************************************************************************)
(* Essentials (C8).  Rows of up to MaxEssentials hygiene, galley, medical  *)
(* and wardroom modules, for every crew size the toolbar offers.           *)
(***************************************************************************)
MaxEssentials == 3

EssentialsDocuments ==
  {LayoutState(crew, Row(types), <<>>, <<>>, Null, Null, Null) :
     crew \in CrewSizes,
     types \in SeqsUpTo({Hygiene, Galley, Medical, Wardroom}, MaxEssentials)}

InitEssentials == \E data \in EssentialsDocuments : Restored(data)

SpecEssentials == InitEssentials /\ [][Render]_vars

\* the findings shown under one of the three essentials messages
EssentialsReports(name) ==
  SelectSeq(validationErrors, LAMBDA e : e.message[1] = name /\ e.type = "error")

\* how many main modules of a layout are of the given type
ModulesOfType(id) ==
  Cardinality({i \in 1..Len(layoutState.mainModules) :
                 layoutState.mainModules[i].id = id})

\* max(1, ceil(crewSize / 3)) in whole numbers
MinHygiene == IF layoutState.crewSize <= 3 THEN 1 ELSE (layoutState.crewSize + 2) \div 3

\* C8: a non-empty layout shows the hygiene error exactly when it has fewer
\* hygiene modules than max(1, ceil(crewSize / 3)), the galley error exactly
\* when it has no galley module and the medical error exactly when it has no
\* medical module, each decided on its own and each shown at most once.
C8_EssentialsIndependent ==
  (~stale /\ Len(layoutState.mainModules) >= 1) =>
    /\ Len(EssentialsReports("Need hygiene module(s)"))
         = (IF ModulesOfType("hygiene") < MinHygiene THEN 1 ELSE 0)
    /\ \A i \in 1..Len(EssentialsReports("Need hygiene module(s)")) :
         EssentialsReports("Need hygiene module(s)")[i].message
           = <<"Need hygiene module(s)", MinHygiene, ModulesOfType("hygiene")>>
    /\ Len(EssentialsReports("Need at least 1 galley module"))
         = (IF ModulesOfType("galley") = 0 THEN 1 ELSE 0)
    /\ Len(EssentialsReports("Need at least 1 medical module"))
         = (IF ModulesOfType("medical") = 0 THEN 1 ELSE 0)

\* a crew of 8 with two hygiene modules and a galley: the hygiene and the
\* medical error without the galley error
C8_Witness ==
  /\ ~stale
  /\ layoutState.crewSize = 8
  /\ ModulesOfType("hygiene") = 2
  /\ ModulesOfType("galley") = 1
  /\ Len(EssentialsReports("Need hygiene module(s)")) = 1
  /\ Len(EssentialsReports("Need at least 1 galley module")) = 0
  /\ Len(EssentialsReports("Need at least 1 medical module")) = 1

(***************************************************************************)
(* Z clearance (C9).  A hygiene module (2.51 m high) and a social module   *)
(* (1.49 m high) holding up to MaxClearanceSubs sub-modules at heights     *)
(* below, at and above the ceiling; one sub-module has no parent.          *)
(***************************************************************************)
MaxClearanceSubs == 2

\* what a document may hold: a sub-module, its parent and its z
ClearanceItems ==
  {<<ShowerStall, "A", 0>>, <<ShowerStall, "A", 41>>, <<ShowerStall, "A", 42>>,
   <<ShowerStall, "B", 0>>, <<ShowerStall, Ghost, 0>>,
   <<DiningTable, "B", 0>>, <<DiningTable, "B", 100>>,
   <<MirrorStation, "B", 0>>, <<MirrorStation, "B", 70>>}

ClearanceDocuments ==
  {LayoutState(4, <<PlacedMainModule(Hygiene, "A", 0, 0, 0),
                    PlacedMainModule(Social, "B", 300, 0, 0)>>,
               [i \in 1..Len(items) |->
                  PlacedSubModule(items[i][1], SubModuleNames[i], items[i][2],
                                  0, 0, items[i][3])],
               <<>>, Null, Null, Null) :
     items \in SeqsUpTo(ClearanceItems, MaxClearanceSubs)}

InitClearance == \E data \in ClearanceDocuments : Restored(data)

SpecClearance == InitClearance /\ [][Render]_vars

\* the Z-clearance findings of one kind shown for a main module
ClearanceReports(name, id) ==
  SelectSeq(validationErrors, LAMBDA e :
    e.message[1] = name /\ e.moduleId = id /\ e.type = "error")

\* the zAware sub-modules placed in a main module
AwareChildren(parent) ==
  {i \in 1..Len(layoutState.subModules) :
     /\ layoutState.subModules[i].parentInstanceId = parent.instanceId
     /\ layoutState.subModules[i].zAware}

\* C9: for every main module, each zAware sub-module placed in it gives one
\* error if it is higher than the module and, on its own, one error if its z
\* plus its height exceeds the module's height; sub-modules that are not
\* zAware, or have no parent, give no Z-clearance error.
C9_ClearanceErrors ==
  ~stale =>
    /\ \A k \in 1..Len(layoutState.mainModules) :
         /\ Len(ClearanceReports("height exceeds",
                                 layoutState.mainModules[k].instanceId))
              = Cardinality({i \in AwareChildren(layoutState.mainModules[k]) :
                               layoutState.subModules[i].height
                                 > layoutState.mainModules[k].height})
         /\ Len(ClearanceReports("extends beyond height",
                                 layoutState.mainModules[k].instanceId))
              = Cardinality({i \in AwareChildren(layoutState.mainModules[k]) :
                               layoutState.subModules[i].z
                                   + layoutState.subModules[i].height
                                 > layoutState.mainModules[k].height})
    /\ \A j \in 1..Len(validationErrors) :
         validationErrors[j].message[1]
             \in {"height exceeds", "extends beyond height"}
           => \E k \in 1..Len(layoutState.mainModules) :
                validationErrors[j].moduleId
                  = layoutState.mainModules[k].instanceId

(***************************************************************************)
(* Port connections (C10).  A hygiene, a vanity and a storage module, and  *)
(* up to MaxPortLinks connections between ports of every type, to modules  *)
(* that are not there and to ports that belong to another module.          *)
(***************************************************************************)
MaxPortLinks == 2

\* the ends a connection may have, each a module id and a port id: every
\* pairing of port types in both directions, a missing module at either end,
\* a port of another module at either end, and both at once
PortLinks ==
  {<<<<"A", "hyg-n">>, <<"B", "van-n">>>>, <<<<"B", "van-n">>, <<"A", "hyg-n">>>>,
   <<<<"B", "van-n">>, <<"C", "stor-e">>>>, <<<<"C", "stor-e">>, <<"B", "van-n">>>>,
   <<<<"A", "hyg-n">>, <<"C", "stor-e">>>>, <<<<"A", "hyg-e">>, <<"C", "stor-e">>>>,
   <<<<Ghost, "hyg-n">>, <<"A", "hyg-n">>>>, <<<<"B", "van-n">>, <<Ghost, "hyg-n">>>>,
   <<<<"A", "van-n">>, <<"B", "van-n">>>>, <<<<"C", "stor-e">>, <<"A", "van-n">>>>,
   <<<<Ghost, "hyg-n">>, <<"A", "van-n">>>>, <<<<"A", "hyg-e">>, <<"A", "hyg-n">>>>}

PortDocuments ==
  {LayoutState(4, <<PlacedMainModule(Hygiene, "A", 0, 0, 0),
                    PlacedMainModule(Vanity, "B", 300, 0, 0),
                    PlacedMainModule(Storage, "C", 600, 0, 0)>>,
               <<>>,
               [i \in 1..Len(ends) |->
                  Connection(ConnectionNames[i], ends[i][1][1], ends[i][1][2],
                             ends[i][2][1], ends[i][2][2])],
               Null, Null, Null) :
     ends \in SeqsUpTo(PortLinks, MaxPortLinks)}

InitPorts == \E data \in PortDocuments : Restored(data)

SpecPorts == InitPorts /\ [][Render]_vars

PortTypeNames == {"std-port", "hab-port", "svc-port", "airlock-port"}

\* two port types that may be joined: equal, or one standard, or hab with svc
Compatible(a, b) ==
  a = b \/ "std-port" \in {a, b} \/ {a, b} = {"hab-port", "svc-port"}

\* the types of the ports a module id and a port id resolve to (none if the
\* module or the port is missing)
PortTypesAt(moduleId, portId) ==
  {layoutState.mainModules[k].ports[p].type :
     k \in {m \in 1..Len(layoutState.mainModules) :
              layoutState.mainModules[m].instanceId = moduleId},
     p \in {q \in 1..4 : \E m \in 1..Len(layoutState.mainModules) :
              /\ layoutState.mainModules[m].instanceId = moduleId
              /\ layoutState.mainModules[m].ports[q].id = portId}}

ModuleResolves(moduleId) ==
  \E k \in 1..Len(layoutState.mainModules) :
    layoutState.mainModules[k].instanceId = moduleId

ModuleMissing(conn) ==
  ~ModuleResolves(conn.fromModuleId) \/ ~ModuleResolves(conn.toModuleId)

PortMissing(conn) ==
  /\ ~ModuleMissing(conn)
  /\ \/ PortTypesAt(conn.fromModuleId, conn.fromPortId) = {}
     \/ PortTypesAt(conn.toModuleId, conn.toPortId) = {}

Incompatible(conn, a, b) ==
  /\ PortTypesAt(conn.fromModuleId, conn.fromPortId) = {a}
  /\ PortTypesAt(conn.toModuleId, conn.toPortId) = {b}
  /\ ~Compatible(a, b)

\* the connections of the layout that satisfy a condition
ConnectionsWhere(Cond(_)) ==
  {i \in 1..Len(layoutState.connections) : Cond(layoutState.connections[i])}

\* the errors shown with a given message and moduleId
PortReports(message, id) ==
  SelectSeq(validationErrors, LAMBDA e :
    e.type = "error" /\ e.message = message /\ e.moduleId = id)

\* C10: each connection with an endpoint module that does not resolve gives
\* one non-existent-module error, each connection with resolved modules and
\* an endpoint port that does not resolve gives one non-existent-port error,
\* and each connection with both modules and both ports resolved gives an
\* incompatible-ports error naming the two port types and tagged with the
\* from module exactly when the two types are not compatible; the other
\* connections of the layout are checked whatever one connection has given.
C10_PortConnectionErrors ==
  ~stale =>
    /\ Len(PortReports(<<"Connection references non-existent module">>,
                       Undefined))
         = Cardinality(ConnectionsWhere(ModuleMissing))
    /\ Len(PortReports(<<"Connection references non-existent port">>,
                       Undefined))
         = Cardinality(ConnectionsWhere(PortMissing))
    /\ \A a \in PortTypeNames, b \in PortTypeNames, id \in {"A", "B", "C"} :
         Len(PortReports(<<"Incompatible ports", a, b>>, id))
           = Cardinality(ConnectionsWhere(
               LAMBDA conn : conn.fromModuleId = id /\ Incompatible(conn, a, b)))
    /\ Len(SelectSeq(validationErrors,
                     LAMBDA e : e.message[1] = "Incompatible ports"))
         = Cardinality(ConnectionsWhere(
             LAMBDA conn : \E a \in PortTypeNames, b \in PortTypeNames :
               Incompatible(conn, a, b)))

\* a connection to a missing module followed by one joining a hab port to an
\* airlock port: both are reported
C10_Witness ==
  /\ ~stale
  /\ Len(layoutState.connections) = 2
  /\ ModuleMissing(layoutState.connections[1])
  /\ Incompatible(layoutState.connections[2], "hab-port", "airlock-port")
  /\ Len(PortReports(<<"Connection references non-existent module">>,
                     Undefined)) = 1
  /\ Len(PortReports(<<"Incompatible ports", "hab-port", "airlock-port">>,
                     "B")) = 1

(***************************************************************************)
(* Sub-module placement (C11).  A wardroom and a hygiene module holding up *)
(* to MaxPlaced sub-modules: allowed ones, ones the parent does not allow  *)
(* and ones whose parent is not in the layout.                             *)
(***************************************************************************)
MaxPlaced == 2

\* what a document may hold: a sub-module and the id of its parent
PlacementItems ==
  {<<DiningTable, "A">>, <<Locker, "A">>, <<ShowerStall, "A">>,
   <<ShowerStall, "B">>, <<DiningTable, "B">>,
   <<DiningTable, Ghost>>, <<ShowerStall, Ghost>>}

PlacementDocuments ==
  {LayoutState(4, <<PlacedMainModule(Wardroom, "A", 0, 0, 0),
                    PlacedMainModule(Hygiene, "B", 300, 0, 0)>>,
               [i \in 1..Len(items) |->
                  PlacedSubModule(items[i][1], SubModuleNames[i], items[i][2],
                                  0, 0, 0)],
               <<>>, Null, Null, Null) :
     items \in SeqsUpTo(PlacementItems, MaxPlaced)}

InitPlacement == \E data \in PlacementDocuments : Restored(data)

SpecPlacement == InitPlacement /\ [][Render]_vars

\* the placed sub-modules that satisfy a condition
SubModulesWhere(Cond(_)) ==
  {i \in 1..Len(layoutState.subModules) : Cond(layoutState.subModules[i])}

\* the main modules a sub-module's parentInstanceId matches
ParentsOf(subModule) ==
  {k \in 1..Len(layoutState.mainModules) :
     layoutState.mainModules[k].instanceId = subModule.parentInstanceId}

\* the sub-module has a parent, and the parent does not allow its type
Disallowed(subModule) ==
  \E k \in ParentsOf(subModule) :
    \A a \in 1..Len(layoutState.mainModules[k].allowedSubModules) :
      layoutState.mainModules[k].allowedSubModules[a] # subModule.id

\* the placement errors shown: every error of one of the two kinds
PlacementErrors ==
  SelectSeq(validationErrors, LAMBDA e :
    e.message[1] \in {"has no parent", "cannot be placed in"})

\* C11: the placement check reports one 'has no parent' error (naming the
\* sub-module, no moduleId) for each sub-module whose parentInstanceId matches
\* no main module, one 'cannot be placed in' error (naming sub-module and
\* parent, tagged with the parent) for each sub-module whose parent exists and
\* does not allow its type id, and nothing else.
C11_PlacementErrors ==
  ~stale =>
    /\ \A sub \in {subModules[n] : n \in 1..Len(subModules)} :
         /\ Len(SelectSeq(PlacementErrors, LAMBDA e :
                  e = ValidationError("error",
                        <<"has no parent", sub.shortName>>, Undefined)))
              = Cardinality(SubModulesWhere(LAMBDA s :
                  s.id = sub.id /\ ParentsOf(s) = {}))
         /\ \A k \in 1..Len(layoutState.mainModules) :
              Len(SelectSeq(PlacementErrors, LAMBDA e :
                    e = ValidationError("error",
                          <<"cannot be placed in", sub.shortName,
                            layoutState.mainModules[k].shortName>>,
                          layoutState.mainModules[k].instanceId)))
                = Cardinality(SubModulesWhere(LAMBDA s :
                    s.id = sub.id /\ k \in ParentsOf(s) /\ Disallowed(s)))
    /\ Len(PlacementErrors)
         = Cardinality(SubModulesWhere(LAMBDA s :
             ParentsOf(s) = {} \/ Disallowed(s)))

\* a shower stall placed in the wardroom, a dining table without a parent and
\* both errors shown
C11_Witness ==
  /\ ~stale
  /\ Len(layoutState.subModules) = 2
  /\ Disallowed(layoutState.subModules[1])
  /\ ParentsOf(layoutState.subModules[2]) = {}
  /\ PlacementErrors
       = <<ValidationError("error",
             <<"cannot be placed in", "Shower", "Wardroom">>, "A"),
           ValidationError("error", <<"has no parent", "Table">>, Undefined)>>

(***************************************************************************)
(* Port reuse (C12).  Two galleys and a hygiene module, one galley with    *)
(* the instance id "G:1", and up to MaxReuseLinks connections that share   *)
(* ports, join a port to itself or name a module that is not there.        *)
(***************************************************************************)
MaxReuseLinks == 3

\* the ends a connection may have, each a module id and a port id
ReuseLinks ==
  {<<<<"A", "gal-e">>, <<"B", "hyg-w">>>>, <<<<"A", "gal-e">>, <<"B", "hyg-e">>>>,
   <<<<"B", "hyg-w">>, <<"A", "gal-w">>>>, <<<<"A", "gal-n">>, <<"A", "gal-n">>>>,
   <<<<Ghost, "gal-e">>, <<"A", "gal-s">>>>,
   <<<<"G:1", "gal-e">>, <<"B", "hyg-n">>>>, <<<<"B", "hyg-s">>, <<"G:1", "gal-e">>>>}

ReuseDocuments ==
  {LayoutState(4, <<PlacedMainModule(Galley, "A", 0, 0, 0),
                    PlacedMainModule(Hygiene, "B", 300, 0, 0),
                    PlacedMainModule(Galley, "G:1", 600, 0, 0)>>,
               <<>>,
               [i \in 1..Len(ends) |->
                  Connection(ConnectionNames[i], ends[i][1][1], ends[i][1][2],
                             ends[i][2][1], ends[i][2][2])],
               Null, Null, Null) :
     ends \in SeqsUpTo(ReuseLinks, MaxReuseLinks)}

InitReuse == \E data \in ReuseDocuments : Restored(data)

SpecReuse == InitReuse /\ [][Render]_vars

\* the (moduleId, portId) pairs that are an endpoint of some connection
EndpointPairs ==
  {<<layoutState.connections[i].fromModuleId,
     layoutState.connections[i].fromPortId>> :
       i \in 1..Len(layoutState.connections)}
  \cup {<<layoutState.connections[i].toModuleId,
          layoutState.connections[i].toPortId>> :
            i \in 1..Len(layoutState.connections)}

\* how often a pair appears among the endpoints of all connections
Appearances(pair) ==
  Cardinality({i \in 1..Len(layoutState.connections) :
     pair = <<layoutState.connections[i].fromModuleId,
              layoutState.connections[i].fromPortId>>})
  + Cardinality({i \in 1..Len(layoutState.connections) :
       pair = <<layoutState.connections[i].toModuleId,
                layoutState.connections[i].toPortId>>})

\* the port-reuse errors shown
ReuseErrors ==
  SelectSeq(validationErrors, LAMBDA e :
    e.message[1] = "Port connected times (max 1)")

\* C12: for every module id and every count above 1 there are as many
\* port-reuse errors carrying that module id and that count as the module has
\* ports appearing that often among the endpoints of all connections, and
\* there is no other port-reuse error; so a pair that appears more than once
\* has exactly one error and a pair that appears once has none.
C12_PortReuseErrors ==
  ~stale =>
    /\ \A pair \in EndpointPairs :
         Appearances(pair) > 1 =>
           Len(SelectSeq(ReuseErrors, LAMBDA e :
                 /\ e.type = "error"
                 /\ e.moduleId = pair[1]
                 /\ e.message[3] = Appearances(pair)))
             = Cardinality({other \in EndpointPairs :
                 /\ other[1] = pair[1]
                 /\ Appearances(other) = Appearances(pair)})
    /\ Len(ReuseErrors)
         = Cardinality({pair \in EndpointPairs : Appearances(pair) > 1})

(***************************************************************************)
(* Port compatibility (C13).  canPortsConnect called on up to              *)
(* MaxPortChecks pairs of port types, one call after the other.            *)
(***************************************************************************)
MaxPortChecks == 2

InitCompatibility ==
  \E args \in SeqsUpTo(PortTypeNames \X PortTypeNames, MaxPortChecks) :
    /\ layoutState = InitialLayout
    /\ connectingPort = NoPort
    /\ validationErrors = <<>>
    /\ switchTo3D = [canSwitch |-> FALSE, errors |-> <<>>]
    /\ stale = FALSE
    /\ portChecks = [args |-> args, results |-> <<>>]
    /\ drawn = <<>>
    /\ now = 1
    /\ solver = NotCalled

SpecCompatibility == InitCompatibility /\ [][CheckPorts]_vars

\* the value a call returned for a pair of types, if it was called with it
Returned(a, b) ==
  {portChecks.results[i] :
     i \in {n \in 1..Len(portChecks.results) : portChecks.args[n] = <<a, b>>}}

\* C13: canPortsConnect(a, b) returns true exactly when a equals b, or one of
\* them is std-port, or the two are hab-port and svc-port, and returns the
\* same with its arguments swapped; (std, airlock) and (hab, svc) give true,
\* (hab, airlock) and (svc, airlock) give false.
C13_CompatibilityTable ==
  /\ \A a \in PortTypeNames, b \in PortTypeNames :
       /\ Returned(a, b) \subseteq {Compatible(a, b)}
       /\ Cardinality(Returned(a, b) \cup Returned(b, a)) <= 1
  /\ Returned("std-port", "airlock-port") \subseteq {TRUE}
  /\ Returned("hab-port", "airlock-port") \subseteq {FALSE}
  /\ Returned("svc-port", "airlock-port") \subseteq {FALSE}
  /\ Returned("hab-port", "svc-port") \subseteq {TRUE}

\* svc-port with hab-port, then hab-port with svc-port: both calls made
C13_Witness ==
  /\ portChecks.args = <<<<"svc-port", "hab-port">>, <<"hab-port", "svc-port">>>>
  /\ portChecks.results = <<TRUE, TRUE>>

RulesMainModules ==
  {<<PlacedMainModule(Hygiene, "A", 0, 0, 0),
     PlacedMainModule(Vanity, "B", x, 0, 0),
     PlacedMainModule(Storage, "C", 600, 0, 0),
     PlacedMainModule(Galley, "D", 900, 0, 0)>> \o more :
     x \in {50, 300},
     more \in {<<>>, <<PlacedMainModule(Medical, "E", 1200, 0, 0)>>}}

RulesSubModules ==
  SubLists(<<PlacedSubModule(ShowerStall, "sub-1", "D", 0, 0, 0),
             PlacedSubModule(Tank(500), "sub-2", "B", 0, 0, 0),
             PlacedSubModule(Locker, "sub-3", Ghost, 0, 0, 0)>>)

RulesConnections ==
  SubLists(<<Connection("conn-1", "A", "hyg-e", "B", "van-w"),
             Connection("conn-2", "B", "van-n", "C", "stor-e"),
             Connection("conn-3", "C", "stor-w", "D", "gal-e"),
             Connection("conn-4", "A", "hyg-e", "B", "van-e")>>)

RulesDocuments ==
  {LayoutState(2, mains, subs, conns, Null, Null, Null) :
     mains \in RulesMainModules, subs \in RulesSubModules,
     conns \in RulesConnections}

InitRules == \E data \in RulesDocuments : Restored(data)

SpecRules == InitRules /\ [][Render]_vars

\* the message templates of the nine rules, rule by rule
RuleMessages ==
  <<{"main module(s) not connected to station network"},
    {"overlapping main module(s) detected"},
    {"at % capacity", "exceeds capacity"},
    {"Insufficient volume"},
    {"Need hygiene module(s)", "Need at least 1 galley module",
     "Need at least 1 medical module"},
    {"height exceeds", "extends beyond height"},
    {"Connection references non-existent module",
     "Connection references non-existent port", "Incompatible ports"},
    {"has no parent", "cannot be placed in"},
    {"Port connected times (max 1)"}>>

\* the number of the rule a finding comes from
RuleOf(e) == CHOOSE r \in 1..9 : e.message[1] \in RuleMessages[r]

\* the findings shown that come from one rule
FindingsOfRule(r) ==
  SelectSeq(validationErrors, LAMBDA e : e.message[1] \in RuleMessages[r])

\* what each rule finds when it is run on the document on its own
RuleAlone ==
  <<ConnectivityFinding(findFloatingModules(layoutState)),
    OverlapFinding(checkMainModuleOverlaps(layoutState.mainModules)),
    validateParentCapacity(layoutState),
    validateCrewVolume(layoutState),
    validateEssentials(layoutState),
    validateZClearance(layoutState),
    validatePortConnections(layoutState),
    validateSubModulePlacement(layoutState),
    validatePortLimits(layoutState)>>

\* C15: for a layout with a main module, every finding shown comes from one
\* of the nine rules, the findings stand in the order of the rules
\* (connectivity, overlap, parent capacity, crew volume, essentials, Z
\* clearance, port connections, sub-module placement, port reuse), and the
\* findings of each rule are those the rule gives on its own, whatever the
\* other rules found.
C15_RulesInOrderAndIndependent ==
  (~stale /\ Len(layoutState.mainModules) > 0) =>
    /\ \A i \in 1..Len(validationErrors) :
         \E r \in 1..9 : validationErrors[i].message[1] \in RuleMessages[r]
    /\ \A i, j \in 1..Len(validationErrors) :
         i < j => RuleOf(validationErrors[i]) <= RuleOf(validationErrors[j])
    /\ [r \in 1..9 |-> FindingsOfRule(r)] = RuleAlone

\* a document on which every one of the nine rules finds something
C15_Witness ==
  /\ ~stale
  /\ \A r \in 1..9 : FindingsOfRule(r) # <<>>

(***************************************************************************)
(* Loading a file (C16).  From the initial page, files are opened one      *)
(* after the other: a file that does not parse, and files that parse to an *)
(* object with or without each of the three arrays, with main modules that *)
(* lack ports or allowedSubModules, and with dangling parent and           *)
(* connection ids.                                                         *)
(***************************************************************************)
\* an object without one of its properties
Without(object, property) ==
  [p \in DOMAIN object \ {property} |-> object[p]]

Absent == [has |-> FALSE, value |-> <<>>]

Present(value) == [has |-> TRUE, value |-> value]

\* the object a file parses to: crewSize and the arrays that are present
ParsedObject(mains, subs, conns) ==
  [p \in {"crewSize"}
         \cup (IF mains.has THEN {"mainModules"} ELSE {})
         \cup (IF subs.has THEN {"subModules"} ELSE {})
         \cup (IF conns.has THEN {"connections"} ELSE {}) |->
     CASE p = "crewSize" -> 4
       [] p = "mainModules" -> mains.value
       [] p = "subModules" -> subs.value
       [] p = "connections" -> conns.value]

FileMainModules ==
  {Absent, Present(<<>>),
   Present(<<PlacedMainModule(Galley, "A", 0, 0, 0)>>),
   Present(<<PlacedMainModule(Galley, "A", 0, 0, 0),
             PlacedMainModule(Hygiene, "B", 300, 0, 0)>>),
   Present(<<Without(PlacedMainModule(Galley, "A", 0, 0, 0), "ports"),
             PlacedMainModule(Hygiene, "B", 300, 0, 0)>>),
   Present(<<Without(PlacedMainModule(Galley, "A", 0, 0, 0),
                     "allowedSubModules"),
             PlacedMainModule(Hygiene, "B", 300, 0, 0)>>)}

FileSubModules ==
  {Absent, Present(<<>>),
   Present(<<PlacedSubModule(Locker, "sub-1", "A", 0, 0, 0)>>),
   Present(<<PlacedSubModule(Locker, "sub-1", Ghost, 0, 0, 0)>>)}

FileConnections ==
  {Absent, Present(<<>>),
   Present(<<Connection("conn-1", "A", "gal-e", "B", "hyg-w")>>),
   Present(<<Connection("conn-1", "A", "gal-e", Ghost, "hyg-w")>>)}

\* a file: whether JSON.parse accepts its text, and the value it gives
Files ==
  {[parses |-> FALSE, data |-> InitialLayout]}
  \cup {[parses |-> TRUE, data |-> ParsedObject(mains, subs, conns)] :
          mains \in FileMainModules, subs \in FileSubModules,
          conns \in FileConnections}

InitOpen == Restored(InitialLayout)

NextOpen == Render \/ \E file \in Files : handleOpen(file)

SpecOpen == InitOpen /\ [][NextOpen]_vars

\* C16: every render of a document that was loaded from a file ends with a
\* list of findings, each an error or a warning, never with an exception;
\* and when the layout has main modules, a sub-module whose parent id matches
\* none of them and a connection with an endpoint that matches none of them
\* are each shown as an error finding.
C16_NeverThrows ==
  ~stale =>
    /\ \A i \in 1..Len(validationErrors) :
         validationErrors[i].type \in {"error", "warning"}
    /\ Len(layoutState.mainModules) > 0 =>
         /\ SubModulesWhere(LAMBDA s : ParentsOf(s) = {}) # {}
              => \E i \in 1..Len(validationErrors) :
                   /\ validationErrors[i].type = "error"
                   /\ validationErrors[i].message[1] = "has no parent"
         /\ ConnectionsWhere(ModuleMissing) # {}
              => \E i \in 1..Len(validationErrors) :
                   /\ validationErrors[i].type = "error"
                   /\ validationErrors[i].message[1]
                        = "Connection references non-existent module"

(***************************************************************************)
(* Independence of the UI fields (C17).  Documents with the same modules,  *)
(* sub-modules and connections under every selection and zoom.             *)
(***************************************************************************)
SelectionDocuments ==
  {LayoutState(crew,
               <<PlacedMainModule(Hygiene, "A", 0, 0, 0),
                 PlacedMainModule(Social, "B", 300, 0, 0)>>,
               subs, conns, selMain, selSub, zoomed) :
     crew \in {2, 4},
     subs \in {<<>>,
               <<PlacedSubModule(ShowerStall, "sub-1", "B", 0, 0, 0)>>,
               <<PlacedSubModule(Locker, "sub-1", "A", 0, 0, 0)>>},
     conns \in {<<>>, <<Connection("conn-1", "A", "hyg-e", "B", "soc-w")>>},
     selMain \in {Null, "A", "B"},
     selSub \in {Null, "sub-1"},
     zoomed \in {Null, "A", "B", Ghost}}

InitSelection == \E data \in SelectionDocuments : Restored(data)

SpecSelection == InitSelection /\ [][Render]_vars

\* the document with nothing selected and no zoom
Deselected(state) ==
  [state EXCEPT !.selectedMainModuleId = Null,
                !.selectedSubModuleId = Null,
                !.zoomedModuleId = Null]

\* C17: the findings of validateLayout and the result of canSwitchTo3D for a
\* layout state are those for the state that has the same crewSize,
\* mainModules, subModules and connections and nothing selected or zoomed;
\* so two states that differ only in selectedMainModuleId,
\* selectedSubModuleId or zoomedModuleId have identical findings.
C17_FindingsIgnoreSelection ==
  ~stale =>
    /\ validationErrors = validateLayout(Deselected(layoutState))
    /\ switchTo3D = canSwitchTo3D(Deselected(layoutState))

\* a shower stall too high for the social module is reported while the
\* canvas is zoomed on the other module and something is selected
C17_Witness ==
  /\ ~stale
  /\ layoutState.zoomedModuleId = "A"
  /\ layoutState.selectedMainModuleId = "B"
  /\ layoutState.selectedSubModuleId = "sub-1"
  /\ \E i \in 1..Len(validationErrors) :
       validationErrors[i].message[1] = "height exceeds"

(***************************************************************************)
(* Stacked heights (C18), on the documents of SpecClearance.               *)
(***************************************************************************)
\* the sum of z + height over a set of sub-modules, in hundredths
RECURSIVE SumOfTops(_)
SumOfTops(children) ==
  IF children = {} THEN 0
  ELSE LET i == CHOOSE c \in children : TRUE
       IN  layoutState.subModules[i].z + layoutState.subModules[i].height
             + SumOfTops(children \ {i})

\* a Z-clearance error is shown for a main module
ClearanceErrorFor(id) ==
  \E i \in 1..Len(validationErrors) :
    /\ validationErrors[i].type = "error"
    /\ validationErrors[i].message[1]
         \in {"height exceeds", "extends beyond height"}
    /\ validationErrors[i].moduleId = id

\* C18 as claimed: whenever the sum of z + height over the zAware sub-modules
\* of a main module exceeds the module's height, a Z-clearance error is shown
\* for that module.
C18_SumOfHeights ==
  ~stale =>
    \A k \in 1..Len(layoutState.mainModules) :
      SumOfTops(AwareChildren(layoutState.mainModules[k]))
          > layoutState.mainModules[k].height
        => ClearanceErrorFor(layoutState.mainModules[k].instanceId)

\* C18 as amended: whenever z + height of some zAware sub-module of a main
\* module exceeds the module's height, a Z-clearance error is shown for that
\* module.
C18_EachHeight ==
  ~stale =>
    \A k \in 1..Len(layoutState.mainModules) :
      (\E i \in AwareChildren(layoutState.mainModules[k]) :
         layoutState.subModules[i].z + layoutState.subModules[i].height
           > layoutState.mainModules[k].height)
        => ClearanceErrorFor(layoutState.mainModules[k].instanceId)

\* a shower stall that is lower than the hygiene module and, raised by
\* 0.42 m, reaches beyond its height, with the error shown
C18_Witness ==
  /\ ~stale
  /\ Len(layoutState.subModules) = 1
  /\ layoutState.subModules[1].parentInstanceId = "A"
  /\ layoutState.subModules[1].z = 42
  /\ ClearanceErrorFor("A")

(***************************************************************************)
(* Footprints of canvas and validator (C19).  One main module of every     *)
(* catalogue type, of the 2 x 1 Bar (2 m high) and of the 2 x 1 Slab (1 m  *)
(* high), at every rotation and two positions.                             *)
(***************************************************************************)
Slab == MainModule("slab", "Slab", 200, 100, 100, 1000, <<>>, <<>>)

Rotations == {0, 90, 180, 270}

FootprintDocuments ==
  {LayoutState(4, <<PlacedMainModule(type, "A", x, 0, rotation)>>,
               <<>>, <<>>, Null, Null, Null) :
     type \in {mainModules[n] : n \in 1..Len(mainModules)} \cup {Bar, Slab},
     x \in {0, 300},
     rotation \in Rotations}

InitFootprint == \E data \in FootprintDocuments : Restored(data)

SpecFootprint == InitFootprint /\ [][Render]_vars

\* C19: for every main module at rotation 0, 90, 180 or 270, the rectangle
\* the canvas draws and the extents it uses for port and connection-line
\* positions, for clamping a sub-module on drop and on drag, and for
\* containment at the end of a sub-module drag are the rotation-adjusted
\* width x depth of the validator's overlap check.
C19_CanvasFootprintIsValidators ==
  ~stale =>
    \A i \in 1..Len(layoutState.mainModules) :
      LET m == layoutState.mainModules[i]
      IN  /\ drawn[i].width = getDim(m).w
          /\ drawn[i].height = getDim(m).d
          /\ getDimensions(m).width = getDim(m).w
          /\ getDimensions(m).depth = getDim(m).d
          /\ parentW(m) = getDim(m).w
          /\ parentH(m) = getDim(m).d
          /\ dims(m).w = getDim(m).w
          /\ dims(m).h = getDim(m).d
          /\ parentDims(m).w = getDim(m).w
          /\ parentDims(m).h = getDim(m).d

(***************************************************************************)
(* Deleting a main module (C20).  A station of three connected modules     *)
(* with sub-modules in two of them; modules and sub-modules are clicked,   *)
(* keys are pressed and the toolbar's Delete button is used.               *)
(***************************************************************************)
DeleteStation ==
  LayoutState(4,
    <<PlacedMainModule(Hygiene, "A", 0, 0, 0),
      PlacedMainModule(Galley, "B", 300, 0, 0),
      PlacedMainModule(Storage, "C", 600, 0, 0)>>,
    <<PlacedSubModule(ShowerStall, "sub-1", "A", 0, 0, 0),
      PlacedSubModule(Locker, "sub-2", "B", 0, 0, 0),
      PlacedSubModule(Locker, "sub-3", "A", 50, 0, 0)>>,
    <<Connection("conn-1", "A", "hyg-e", "B", "gal-w"),
      Connection("conn-2", "B", "gal-e", "C", "stor-w")>>,
    Null, Null, Null)

DeleteKeys == {"Delete", "Backspace", "Escape"}

InitDelete == Restored(DeleteStation)

NextDelete ==
  \/ Render
  \/ \E id \in {"A", "B", "C"} : clickMainModule(id)
  \/ \E id \in {"sub-1", "sub-2", "sub-3"} : clickSubModule(id)
  \/ \E key \in DeleteKeys : handleKeyDown(key)
  \/ handleDeleteSelected

SpecDelete == InitDelete /\ [][NextDelete]_vars

\* every sub-module's parent and both ends of every connection are main
\* modules of the layout
NoneLeftBehind(state) ==
  /\ \A i \in 1..Len(state.subModules) :
       \E k \in 1..Len(state.mainModules) :
         state.mainModules[k].instanceId = state.subModules[i].parentInstanceId
  /\ \A i \in 1..Len(state.connections) :
       /\ \E k \in 1..Len(state.mainModules) :
            state.mainModules[k].instanceId = state.connections[i].fromModuleId
       /\ \E k \in 1..Len(state.mainModules) :
            state.mainModules[k].instanceId = state.connections[i].toModuleId

\* C20: a Delete or Backspace key or the toolbar's Delete button, with a main
\* module selected, replaces the state once, by the state that has all main
\* modules but the selected one, all sub-modules but its children, all
\* connections but those from or to it, in their order and unchanged, and
\* the same crewSize; so no state, and none the validator is given, has a
\* sub-module or a connection of a module that is gone.
C20_DeleteCascades ==
  [][/\ NoneLeftBehind(layoutState')
     /\ (/\ layoutState.selectedMainModuleId # Null
         /\ \/ handleDeleteSelected
            \/ handleKeyDown("Delete")
            \/ handleKeyDown("Backspace"))
        => /\ layoutState'.mainModules
                = SelectSeq(layoutState.mainModules, LAMBDA m :
                    m.instanceId # layoutState.selectedMainModuleId)
           /\ layoutState'.subModules
                = SelectSeq(layoutState.subModules, LAMBDA sub :
                    sub.parentInstanceId # layoutState.selectedMainModuleId)
           /\ layoutState'.connections
                = SelectSeq(layoutState.connections, LAMBDA c :
                    layoutState.selectedMainModuleId
                      \notin {c.fromModuleId, c.toModuleId})
           /\ layoutState'.crewSize = layoutState.crewSize
           /\ stale']_vars

\* the first module was deleted: the validator is given the other two with
\* their sub-module and their connection
C20_Witness ==
  /\ ~stale
  /\ InstanceIds(layoutState.mainModules) = <<"B", "C">>
  /\ layoutState.subModules = <<DeleteStation.subModules[2]>>
  /\ layoutState.connections = <<DeleteStation.connections[2]>>
  /\ drawn # <<>>

(***************************************************************************)
(* C21: connecting two ports on the canvas.                                *)
(***************************************************************************)
\* three modules in a row and nothing else: no connection yet
PortClickStation ==
  LayoutState(4,
    <<PlacedMainModule(Hygiene, "A", 0, 0, 0),
      PlacedMainModule(Galley, "B", 300, 0, 0),
      PlacedMainModule(Vanity, "C", 600, 0, 0)>>,
    <<>>, <<>>, Null, Null, Null)

\* the ports that are clicked: two of the first module, one of the others
ClickedPorts ==
  {<<"A", "hyg-e">>, <<"A", "hyg-w">>, <<"B", "gal-w">>, <<"C", "van-w">>}

InitPortClicks == Restored(PortClickStation)

NextPortClicks ==
  \/ Render
  \/ \E port \in ClickedPorts : handlePortClick(port[1], port[2])

SpecPortClicks == InitPortClicks /\ [][NextPortClicks]_vars

\* the connections of a state that join modules a and b, in either direction
Joining(state, a, b) ==
  {i \in 1..Len(state.connections) :
     {state.connections[i].fromModuleId, state.connections[i].toModuleId}
       = {a, b}}

\* C21: a port click that completes a connection on the pending port's own
\* module, or on a module that a connection already joins with the pending
\* port's module in either direction, cancels the pending connection and
\* leaves the layout as it is; so, starting without connections, no
\* connection ever joins a module with itself and no two connections join
\* the same two modules.
C21_OneConnectionPerPair ==
  /\ [](\A a, b \in {"A", "B", "C"} :
          Cardinality(Joining(layoutState, a, b)) <= (IF a = b THEN 0 ELSE 1))
  /\ [][\A port \in ClickedPorts :
          (/\ handlePortClick(port[1], port[2])
           /\ connectingPort # NoPort
           /\ \/ connectingPort[1].moduleId = port[1]
              \/ Joining(layoutState, connectingPort[1].moduleId, port[1]) # {})
          => /\ connectingPort' = NoPort
             /\ layoutState' = layoutState]_vars

\* all three pairs of modules have been connected, one connection each
C21_Witness ==
  /\ ~stale
  /\ connectingPort = NoPort
  /\ Len(layoutState.connections) = 3
  /\ \A a, b \in {"A", "B", "C"} :
       a # b => Cardinality(Joining(layoutState, a, b)) = 1

(***************************************************************************)
(* C22: the end of a sub-module drag.                                      *)
(***************************************************************************)
\* a hygiene module with its shower stall, alone, turned, or under a galley
\* that comes first in the list; a locker whose parent is missing
DragMainModules ==
  {<<PlacedMainModule(Hygiene, "A", 0, 0, 0)>>,
   <<PlacedMainModule(Hygiene, "A", 0, 0, 90)>>,
   <<PlacedMainModule(Galley, "B", 50, 0, 0),
     PlacedMainModule(Hygiene, "A", 0, 0, 0)>>}

DragSubModules ==
  <<PlacedSubModule(ShowerStall, "sub-1", "A", 0, 0, 0),
    PlacedSubModule(Locker, "sub-2", "X", 100, 100, 0)>>

DragDocuments ==
  {LayoutState(4, mains, DragSubModules, <<>>, Null, selected, Null) :
     mains \in DragMainModules, selected \in {Null, "sub-1"}}

\* where the pointer ends a drag, in pixels (20 pixels are one grid step)
DragTargets == {0, 20, 40, 400} \X {0, 40, 400}

InitDrag == \E data \in DragDocuments : Restored(data)

\* one drag from each of the documents
NextDrag ==
  \/ Render
  \/ /\ layoutState \in DragDocuments
     /\ \E i \in 1..Len(DragSubModules), pos \in DragTargets :
          dragSubModule(i, pos)

SpecDrag == InitDrag /\ [][NextDrag]_vars

\* where the i-th sub-module's node is at the end of a drag to pos, in
\* hundredths of a metre
DragEnd(i, pos) ==
  LET target == Metres(onDragMove(layoutState, layoutState.subModules[i],
                                  [x |-> DFromInt(pos[1]),
                                   y |-> DFromInt(pos[2])]))
  IN  [x |-> Hundredths(target.x), y |-> Hundredths(target.y)]

\* the footprint of main module m, rotation applied, contains a sub-module
\* of the given extent at abs, within 0.15 m
FootprintContains(m, sub, abs) ==
  /\ abs.x >= m.x - 15
  /\ abs.y >= m.y - 15
  /\ abs.x + sub.width <= m.x + getDim(m).w + 15
  /\ abs.y + sub.depth <= m.y + getDim(m).d + 15

\* the main modules of the layout whose footprint contains sub at abs
Containing(sub, abs) ==
  {k \in 1..Len(layoutState.mainModules) :
     FootprintContains(layoutState.mainModules[k], sub, abs)}

\* the i-th sub-module is kept, as a child of a main module that contains
\* it, at its place relative to that module
Kept(i, sub, abs) ==
  /\ Len(layoutState'.subModules) = Len(layoutState.subModules)
  /\ \E k \in Containing(sub, abs) :
       layoutState'.subModules[i] =
         [sub EXCEPT
            !.parentInstanceId = layoutState.mainModules[k].instanceId,
            !.x = abs.x - layoutState.mainModules[k].x,
            !.y = abs.y - layoutState.mainModules[k].y]
  /\ \A j \in 1..Len(layoutState.subModules) :
       j # i => layoutState'.subModules[j] = layoutState.subModules[j]
  /\ layoutState'.selectedSubModuleId = layoutState.selectedSubModuleId

\* the i-th sub-module is removed, and deselected if it was selected
Dropped(i, sub) ==
  /\ layoutState'.subModules =
       SelectSeq(layoutState.subModules, LAMBDA s : s # sub)
  /\ layoutState'.selectedSubModuleId =
       IF layoutState.selectedSubModuleId = sub.instanceId THEN Null
       ELSE layoutState.selectedSubModuleId

\* C22: at the end of a sub-module drag the sub-module is kept, as a child
\* of a main module whose footprint contains it within 0.15 m and at its
\* place relative to that module, if there is such a module, and is removed
\* (and deselected if selected) if there is none; nothing else changes.
C22_DragEndKeepsOrRemoves ==
  [][\A i \in 1..Len(DragSubModules), pos \in DragTargets :
       dragSubModule(i, pos) =>
         /\ IF Containing(layoutState.subModules[i], DragEnd(i, pos)) # {}
            THEN Kept(i, layoutState.subModules[i], DragEnd(i, pos))
            ELSE Dropped(i, layoutState.subModules[i])
         /\ layoutState'.mainModules = layoutState.mainModules
         /\ layoutState'.connections = layoutState.connections
         /\ layoutState'.crewSize = layoutState.crewSize
         /\ layoutState'.selectedMainModuleId = layoutState.selectedMainModuleId
         /\ layoutState'.zoomedModuleId = layoutState.zoomedModuleId]_vars

(***************************************************************************)
(* C23: dropping a sub-module on the canvas.                               *)
(***************************************************************************)
\* a hygiene module and a galley with one locker; no module, the first, the
\* second or a module that is gone is zoomed; either may be selected
DropDocuments ==
  {LayoutState(4,
     <<PlacedMainModule(Hygiene, "A", 0, 0, 0),
       PlacedMainModule(Galley, "B", 300, 0, 90)>>,
     <<PlacedSubModule(Locker, "sub-1", "B", 50, 50, 0)>>,
     <<>>, selected, Null, zoomed) :
     selected \in {Null, "A"}, zoomed \in {Null, "A", "B", "Z"}}

\* what a drag from the library carries: its moduleType and the module's
\* data, which may be missing
Drags ==
  {[moduleType |-> "sub", moduleData |-> data] :
     data \in {<<>>, <<ShowerStall>>, <<Locker>>, <<DiningTable>>}}
  \cup {[moduleType |-> "main", moduleData |-> data] :
          data \in {<<>>, <<Wardroom>>}}
  \cup {[moduleType |-> "", moduleData |-> <<>>]}

\* where the drop lands on the canvas, in pixels
DropPlaces ==
  {[x |-> DFromInt(px[1]), y |-> DFromInt(px[2])] :
     px \in {<<0, 0>>, <<30, 50>>, <<130, 10>>, <<400, 400>>}}

InitDrop == \E data \in DropDocuments : Restored(data)

\* one drop on each of the documents
NextDrop ==
  \/ Render
  \/ /\ layoutState \in DropDocuments
     /\ \E drag \in Drags, canvas \in DropPlaces :
          handleDrop(drag.moduleType, drag.moduleData, canvas)

SpecDrop == InitDrop /\ [][NextDrop]_vars

\* the zoomed module is set, is a main module of the layout, and allows the
\* sub-module
MayHold(state, module) ==
  /\ state.zoomedModuleId # Null
  /\ \E i \in 1..Len(state.mainModules) :
       /\ state.mainModules[i].instanceId = state.zoomedModuleId
       /\ \E k \in 1..Len(state.mainModules[i].allowedSubModules) :
            state.mainModules[i].allowedSubModules[k] = module.id

\* the step adds one sub-module of the given type, as a child of the zoomed
\* module and at z = 0, and changes nothing else
AddsTo(module) ==
  /\ Len(layoutState'.subModules) = Len(layoutState.subModules) + 1
  /\ SubSeq(layoutState'.subModules, 1, Len(layoutState.subModules))
       = layoutState.subModules
  /\ LET new == layoutState'.subModules[Len(layoutState'.subModules)]
     IN  /\ new.id = module.id
         /\ new.parentInstanceId = layoutState.zoomedModuleId
         /\ new.z = 0
  /\ [layoutState' EXCEPT !.subModules = layoutState.subModules] = layoutState

EscapeStation ==
  LayoutState(4,
    <<PlacedMainModule(Hygiene, "A", 0, 0, 0),
      PlacedMainModule(Galley, "B", 300, 0, 0)>>,
    <<PlacedSubModule(ShowerStall, "sub-1", "A", 0, 0, 0)>>,
    <<>>, Null, Null, Null)

EscapePorts == {<<"A", "hyg-e">>, <<"B", "gal-w">>}

InitEscape == Restored(EscapeStation)

NextEscape ==
  \/ Render
  \/ \E id \in {"A", "B"} : clickMainModule(id)
  \/ \E id \in {"A", "B"} : dblClickMainModule(id)
  \/ clickSubModule("sub-1")
  \/ \E port \in EscapePorts : handlePortClick(port[1], port[2])
  \/ \E key \in {"Escape", "Delete"} : handleKeyDown(key)

SpecEscape == InitEscape /\ [][NextEscape]_vars

\* what the Escape key is to do: cancel the pending connection; without
\* one, leave the zoom; without a zoom, clear the selection
EscapeAsClaimed ==
  IF connectingPort # NoPort
  THEN connectingPort' = NoPort
  ELSE IF layoutState.zoomedModuleId # Null
  THEN layoutState'.zoomedModuleId = Null /\ connectingPort' = NoPort
  ELSE /\ layoutState'.selectedMainModuleId = Null
       /\ layoutState'.selectedSubModuleId = Null
       /\ layoutState'.zoomedModuleId = Null
       /\ connectingPort' = NoPort

\* C24: in every state in which the canvas takes a key, the Escape key
\* cancels the pending connection if there is one, whatever is selected;
\* otherwise it leaves zoom mode if a module is zoomed, and else clears the
\* selection.
C24_EscapeCancelsFirst ==
  ~stale => ENABLED (handleKeyDown("Escape") /\ EscapeAsClaimed)

(***************************************************************************)
(* The editor from the empty layout (C26 to C29): main modules and         *)
(* sub-modules are dropped from the library, clicked, double-clicked and   *)
(* deleted, sub-modules are dragged, ports are clicked, Delete and Escape  *)
(* are pressed and the layout is cleared.  No file is opened.  Turning and *)
(* moving main modules is explored by SpecRotate.                          *)
(***************************************************************************)
\* the readings of the clock that get into an instance id or a connection id
MaxClock == 3

\* what is dragged out of the library
EditorDrags ==
  {[moduleType |-> "main", moduleData |-> <<Galley>>],
   [moduleType |-> "main", moduleData |-> <<Hygiene>>],
   [moduleType |-> "sub", moduleData |-> <<ShowerStall>>]}

\* where a drop or a drag ends on the canvas, in pixels
EditorPlaces == {[x |-> DFromInt(0), y |-> DFromInt(0)]}

EditorDragTargets == {<<0, 0>>, <<200, 0>>}

EditorPorts == {"hyg-e", "gal-w"}

EditorKeys == {"Delete", "Escape"}

\* the instance ids of the main modules on the canvas
MainIds(state) ==
  {state.mainModules[i].instanceId : i \in 1..Len(state.mainModules)}

InitEditor == Restored(InitialLayout)

NextEditor ==
  \/ Render
  \/ /\ now <= MaxClock
     /\ \E drag \in EditorDrags, canvas \in EditorPlaces :
          handleDrop(drag.moduleType, drag.moduleData, canvas)
  \/ /\ now <= MaxClock
     /\ \E id \in MainIds(layoutState), portId \in EditorPorts :
          handlePortClick(id, portId)
  \/ \E id \in MainIds(layoutState) : clickMainModule(id)
  \/ \E id \in MainIds(layoutState) : dblClickMainModule(id)
  \/ \E i \in 1..Len(layoutState.subModules) :
       clickSubModule(layoutState.subModules[i].instanceId)
  \/ \E i \in 1..Len(layoutState.subModules), pos \in EditorDragTargets :
       dragSubModule(i, pos)
  \/ \E key \in EditorKeys : handleKeyDown(key)
  \/ handleDeleteSelected
  \/ \E confirmed \in BOOLEAN : handleClearAll(confirmed)

SpecEditor == InitEditor /\ [][NextEditor]_vars

(***************************************************************************)
(* C25: rotation.  From the empty layout main modules are dropped,         *)
(* clicked, turned with the r key and the Rotate button, moved, deleted    *)
(* and cleared.                                                            *)
(***************************************************************************)
\* the main modules dropped while turning and moving is explored
MaxTurned == 2

RotateDrags ==
  {[moduleType |-> "main", moduleData |-> <<Galley>>],
   [moduleType |-> "main", moduleData |-> <<Hygiene>>]}

RotateKeys == {"r", "R", "Delete"}

RotateDragTargets == {<<200, 0>>}

NextRotate ==
  \/ Render
  \/ /\ now <= MaxTurned
     /\ \E drag \in RotateDrags, canvas \in EditorPlaces :
          handleDrop(drag.moduleType, drag.moduleData, canvas)
  \/ \E id \in MainIds(layoutState) : clickMainModule(id)
  \/ \E id \in MainIds(layoutState), target \in RotateDragTargets :
       handleMainModuleDragEnd(id, [x |-> DFromInt(target[1]),
                                    y |-> DFromInt(target[2])])
  \/ \E key \in RotateKeys : handleKeyDown(key)
  \/ handleRotateSelected
  \/ \E confirmed \in BOOLEAN : handleClearAll(confirmed)

SpecRotate == InitEditor /\ [][NextRotate]_vars

\* a step of the r key or the Rotate button
RotateStep ==
  \/ handleRotateSelected
  \/ \E key \in {"r", "R"} : handleKeyDown(key)

\* the step turns the selected main module by a quarter and changes nothing
\* else in the layout state
TurnsSelectedOnly ==
  /\ Len(layoutState'.mainModules) = Len(layoutState.mainModules)
  /\ \A i \in 1..Len(layoutState.mainModules) :
       LET m == layoutState.mainModules[i]
           after == layoutState'.mainModules[i]
       IN  IF m.instanceId = layoutState.selectedMainModuleId
           THEN /\ after.rotation = (m.rotation + 90) % 360
                /\ [after EXCEPT !.rotation = m.rotation] = m
           ELSE after = m
  /\ [layoutState' EXCEPT !.mainModules = layoutState.mainModules]
       = layoutState

\* the step adds a main module, and adds it with rotation 0
AddsUnrotated ==
  Len(layoutState'.mainModules) > Len(layoutState.mainModules)
  => /\ Len(layoutState'.mainModules) = Len(layoutState.mainModules) + 1
     /\ layoutState'.mainModules[Len(layoutState'.mainModules)].rotation = 0

C26_ConnectionEndsExist ==
  \A i \in 1..Len(layoutState.connections) :
    /\ layoutState.connections[i].fromModuleId \in MainIds(layoutState)
    /\ layoutState.connections[i].toModuleId \in MainIds(layoutState)

\* C27: from the empty layout, zoomedModuleId is null or the instance id of
\* a main module of the layout, also after the zoomed module was deleted and
\* after the layout was cleared.
C27_ZoomedModuleExists ==
  layoutState.zoomedModuleId \in MainIds(layoutState) \cup {Null}

\* the findings on the screen whose message starts with the given words
Reported(words) ==
  {i \in 1..Len(validationErrors) : validationErrors[i].message[1] = words}

\* C28: from the empty layout and without opening a file, the parent of
\* every sub-module is a main module of the layout, and no 'has no parent'
\* error is shown.
C28_ParentsExist ==
  /\ \A i \in 1..Len(layoutState.subModules) :
       layoutState.subModules[i].parentInstanceId \in MainIds(layoutState)
  /\ ~stale => Reported("has no parent") = {}

\* a sub-module is left in its parent after another main module was deleted
C28_Witness ==
  /\ ~stale
  /\ now = MaxClock + 1
  /\ Len(layoutState.mainModules) = 1
  /\ Len(layoutState.subModules) = 1
  /\ layoutState.subModules[1].parentInstanceId
       = layoutState.mainModules[1].instanceId

\* C29: from the empty layout and without opening a file, the type id of
\* every sub-module is one of the allowedSubModules of its parent, also
\* after a drag from one main module into another, and no 'cannot be placed'
\* error is shown.
C29_ParentsAllowChildren ==
  /\ \A i \in 1..Len(layoutState.subModules) :
       \A k \in 1..Len(layoutState.mainModules) :
         layoutState.mainModules[k].instanceId
           = layoutState.subModules[i].parentInstanceId
         => \E a \in 1..Len(layoutState.mainModules[k].allowedSubModules) :
              layoutState.mainModules[k].allowedSubModules[a]
                = layoutState.subModules[i].id
  /\ ~stale => Reported("cannot be placed in") = {}

(***************************************************************************)
(* The 3D scene's position solver (part_003).  The measured widths and     *)
(* depths are whole numbers of half metres, so that every sum, half and    *)
(* difference the solver computes is exact in binary64; lengths and        *)
(* coordinates are kept in quarter metres.                                 *)
(***************************************************************************)
SNAP_GAP == 0

\* the passes after which the while loop gives up
GuardLimit == 1000

\* new Map()
EmptyMap == [key \in {} |-> 0]

\* map.set(key, value)
MapSet(map, key, value) ==
  [k \in DOMAIN map \cup {key} |-> IF k = key THEN value ELSE map[k]]

\* mod.ports.find((p) => p.id === portId) || null, a list of none or one
getPort(mod, portId) ==
  LET found == SelectSeq(mod.ports, LAMBDA p : p.id = portId)
  IN  IF found = <<>> THEN <<>> ELSE <<found[1]>>

\* (bFrom.width + bTo.width) / 2 and (bFrom.depth + bTo.depth) / 2
HalfSum(a, b) == (a + b) \div 2

\* the place of module `to` beside module `from`, from the measured bounds
placeRelativeByBounds(from, to, fromPortPos, toPortPos, fromPos, bFrom, bTo) ==
  LET dxHalf == HalfSum(bFrom.width, bTo.width)
                  + (IF fromPortPos \in {"east", "west"} THEN SNAP_GAP ELSE 0)
      dyHalf == HalfSum(bFrom.depth, bTo.depth)
                  + (IF fromPortPos \in {"north", "south"} THEN SNAP_GAP ELSE 0)
  IN  IF fromPortPos = "east" /\ toPortPos = "west"
      THEN [x |-> fromPos.x + dxHalf, y |-> fromPos.y]
      ELSE IF fromPortPos = "west" /\ toPortPos = "east"
      THEN [x |-> fromPos.x - dxHalf, y |-> fromPos.y]
      ELSE IF fromPortPos = "north" /\ toPortPos = "south"
      THEN [x |-> fromPos.x, y |-> fromPos.y - dyHalf]
      ELSE IF fromPortPos = "south" /\ toPortPos = "north"
      THEN [x |-> fromPos.x, y |-> fromPos.y + dyHalf]
      ELSE [x |-> IF fromPortPos = "east"
                  THEN fromPos.x + HalfSum(bFrom.width, bTo.width) + SNAP_GAP
                  ELSE IF fromPortPos = "west"
                  THEN fromPos.x - HalfSum(bFrom.width, bTo.width) - SNAP_GAP
                  ELSE fromPos.x,
            y |-> IF fromPortPos = "south"
                  THEN fromPos.y + HalfSum(bFrom.depth, bTo.depth) + SNAP_GAP
                  ELSE IF fromPortPos = "north"
                  THEN fromPos.y - HalfSum(bFrom.depth, bTo.depth) - SNAP_GAP
                  ELSE fromPos.y]

\* the roles swapped
placeInverseByBounds(to, from, toPortPos, fromPortPos, toPos, bTo, bFrom) ==
  placeRelativeByBounds(to, from, toPortPos, fromPortPos, toPos, bTo, bFrom)

\* modById: of the modules with one instance id the last one set stays
modById(modules) ==
  [id \in {modules[i].instanceId : i \in 1..Len(modules)} |->
     modules[CHOOSE i \in 1..Len(modules) :
               /\ modules[i].instanceId = id
               /\ \A k \in (i + 1)..Len(modules) : modules[k].instanceId # id]]

\* the body of the for loop that also places a module that has a position
Visit_Overwriting(call, conn, byId) ==
  IF conn.fromModuleId \notin DOMAIN byId \/ conn.toModuleId \notin DOMAIN byId
  THEN call
  ELSE IF \/ conn.fromModuleId \notin DOMAIN call.bounds
          \/ conn.toModuleId \notin DOMAIN call.bounds
  THEN call
  ELSE IF \/ getPort(byId[conn.fromModuleId], conn.fromPortId) = <<>>
          \/ getPort(byId[conn.toModuleId], conn.toPortId) = <<>>
  THEN call
  ELSE IF conn.fromModuleId \in DOMAIN call.positions
  THEN [call EXCEPT
          !.positions = MapSet(@, conn.toModuleId,
            placeRelativeByBounds(
              byId[conn.fromModuleId], byId[conn.toModuleId],
              getPort(byId[conn.fromModuleId], conn.fromPortId)[1].position,
              getPort(byId[conn.toModuleId], conn.toPortId)[1].position,
              call.positions[conn.fromModuleId],
              call.bounds[conn.fromModuleId], call.bounds[conn.toModuleId])),
          !.changed = TRUE]
  ELSE IF conn.toModuleId \in DOMAIN call.positions
  THEN [call EXCEPT
          !.positions = MapSet(@, conn.fromModuleId,
            placeInverseByBounds(
              byId[conn.toModuleId], byId[conn.fromModuleId],
              getPort(byId[conn.toModuleId], conn.toPortId)[1].position,
              getPort(byId[conn.fromModuleId], conn.fromPortId)[1].position,
              call.positions[conn.toModuleId],
              call.bounds[conn.toModuleId], call.bounds[conn.fromModuleId])),
          !.changed = TRUE]
  ELSE call

\* the body of the for loop, for the connection conn
Visit(call, conn, byId) ==
  IF conn.fromModuleId \notin DOMAIN byId \/ conn.toModuleId \notin DOMAIN byId
  THEN call
  ELSE IF \/ conn.fromModuleId \notin DOMAIN call.bounds
          \/ conn.toModuleId \notin DOMAIN call.bounds
  THEN call
  ELSE IF \/ getPort(byId[conn.fromModuleId], conn.fromPortId) = <<>>
          \/ getPort(byId[conn.toModuleId], conn.toPortId) = <<>>
  THEN call
  ELSE IF /\ conn.fromModuleId \in DOMAIN call.positions
          /\ conn.toModuleId \notin DOMAIN call.positions
  THEN [call EXCEPT
          !.positions = MapSet(@, conn.toModuleId,
            placeRelativeByBounds(
              byId[conn.fromModuleId], byId[conn.toModuleId],
              getPort(byId[conn.fromModuleId], conn.fromPortId)[1].position,
              getPort(byId[conn.toModuleId], conn.toPortId)[1].position,
              call.positions[conn.fromModuleId],
              call.bounds[conn.fromModuleId], call.bounds[conn.toModuleId])),
          !.changed = TRUE]
  ELSE IF /\ conn.fromModuleId \notin DOMAIN call.positions
          /\ conn.toModuleId \in DOMAIN call.positions
  THEN [call EXCEPT
          !.positions = MapSet(@, conn.fromModuleId,
            placeInverseByBounds(
              byId[conn.toModuleId], byId[conn.fromModuleId],
              getPort(byId[conn.toModuleId], conn.toPortId)[1].position,
              getPort(byId[conn.fromModuleId], conn.fromPortId)[1].position,
              call.positions[conn.toModuleId],
              call.bounds[conn.toModuleId], call.bounds[conn.fromModuleId])),
          !.changed = TRUE]
  ELSE call

\* solvePositionsWithMeasuredBounds up to the loop: the empty answer for no
\* modules, else the first module at the origin if it has bounds
solveSeed ==
  /\ solver.pc = "call"
  /\ solver' =
       IF Len(solver.modules) = 0
       THEN [pc |-> "return", modules |-> solver.modules,
             connections |-> solver.connections, bounds |-> solver.bounds,
             positions |-> EmptyMap]
       ELSE [pc |-> "while", modules |-> solver.modules,
             connections |-> solver.connections, bounds |-> solver.bounds,
             positions |->
               IF solver.modules[1].instanceId \in DOMAIN solver.bounds
               THEN MapSet(EmptyMap, solver.modules[1].instanceId,
                           [x |-> 0, y |-> 0])
               ELSE EmptyMap,
             changed |-> TRUE, guard |-> 0, next |-> 1]
  /\ UNCHANGED <<layoutState, connectingPort, validationErrors, switchTo3D,
                 stale, portChecks, drawn, now>>

\* the test of the while loop and the start of a pass
solveWhile ==
  /\ solver.pc = "while"
  /\ solver' =
       IF solver.changed /\ solver.guard < GuardLimit
       THEN [solver EXCEPT !.pc = "for", !.changed = FALSE,
                           !.guard = @ + 1, !.next = 1]
       ELSE [solver EXCEPT !.pc = "return"]
  /\ UNCHANGED <<layoutState, connectingPort, validationErrors, switchTo3D,
                 stale, portChecks, drawn, now>>

\* one turn of the for loop over the connections
solveFor ==
  /\ solver.pc = "for"
  /\ solver' =
       IF solver.next > Len(solver.connections)
       THEN [solver EXCEPT !.pc = "while"]
       ELSE [Visit(solver, solver.connections[solver.next],
                   modById(solver.modules)) EXCEPT !.next = @ + 1]
  /\ UNCHANGED <<layoutState, connectingPort, validationErrors, switchTo3D,
                 stale, portChecks, drawn, now>>

(***************************************************************************)
(* C30: the solver ends.  It is called with up to MaxSolved modules, each  *)
(* list of up to MaxLinks connections from a pool that also holds a        *)
(* connection to a missing module, one through a missing port and one of a *)
(* module with itself, and measured bounds for all, some or none of the    *)
(* modules.                                                                *)
(***************************************************************************)
MaxSolved == 3

MaxLinks == 3

SolverIds == <<"A", "B", "C", "D", "E">>

\* a module as the 3D scene reads it
SolverModule(instanceId) ==
  [instanceId |-> instanceId,
   ports |-> <<[id |-> "e", position |-> "east"],
               [id |-> "w", position |-> "west"],
               [id |-> "n", position |-> "north"],
               [id |-> "s", position |-> "south"]>>]

SolverModuleLists ==
  {[i \in 1..n |-> SolverModule(SolverIds[i])] : n \in 0..MaxSolved}

SolverLinks ==
  {Connection("c1", "A", "e", "B", "w"),
   Connection("c2", "C", "n", "B", "s"),
   Connection("c3", "C", "w", "A", "n"),
   Connection("c4", "B", "e", "X", "w"),
   Connection("c5", "B", "q", "C", "w"),
   Connection("c6", "A", "e", "A", "w")}

\* the bounds measured so far, in quarter metres
MeasuredBounds ==
  LET all == [id \in {"A", "B", "C", "D", "E"} |->
                IF id = "B" THEN [width |-> 12, depth |-> 8]
                ELSE [width |-> 8, depth |-> 10]]
  IN  {[id \in ids |-> all[id]] :
         ids \in {{}, {"B", "C"}, {"A", "B"}, {"A", "B", "C", "D", "E"}}}

SolverCalls ==
  {[pc |-> "call", modules |-> modules, connections |-> connections,
    bounds |-> bounds] :
     modules \in SolverModuleLists,
     connections \in SeqsUpTo(SolverLinks, MaxLinks),
     bounds \in MeasuredBounds}

InitSolve ==
  /\ layoutState = InitialLayout
  /\ connectingPort = NoPort
  /\ validationErrors = <<>>
  /\ switchTo3D = [canSwitch |-> FALSE, errors |-> <<>>]
  /\ stale = FALSE
  /\ portChecks = [args |-> <<>>, results |-> <<>>]
  /\ drawn = <<>>
  /\ now = 1
  /\ solver \in SolverCalls

NextSolve == solveSeed \/ solveWhile \/ solveFor

\* the function runs on: no step of it waits for anything
SpecSolve == InitSolve /\ [][NextSolve]_vars /\ WF_vars(NextSolve)

\* the instance ids joined with id by one connection, in either direction
Neighbours(id) ==
  {c.toModuleId : c \in {solver.connections[i] :
      i \in {n \in 1..Len(solver.connections) :
               solver.connections[n].fromModuleId = id}}}
  \cup
  {c.fromModuleId : c \in {solver.connections[i] :
      i \in {n \in 1..Len(solver.connections) :
               solver.connections[n].toModuleId = id}}}

RECURSIVE Chained(_, _)
\* the instance ids linked with those of `ids` by chains of up to n connections
Chained(ids, n) ==
  IF n = 0 THEN ids
  ELSE Chained(ids \cup UNION {Neighbours(id) : id \in ids}, n - 1)

\* the loop is entered: the locals exist
InLoop == solver.pc \in {"while", "for"} \/
          (solver.pc = "return" /\ Len(solver.modules) > 0)

\* C30: solvePositionsWithMeasuredBounds returns, and not because of its
\* guard of 1000 passes: the loop ends with nothing changed, after at most
\* modules + 1 passes; a position that is set is never set again; a pass
\* that changes something gives a position to a module that had none; only
\* the first module and modules linked to it by a chain of connections get
\* a position.
C30_SolverEnds ==
  /\ <>(solver.pc = "return")
  /\ [](InLoop => solver.guard <= Len(solver.modules) + 1)
  /\ []((solver.pc = "return" /\ Len(solver.modules) > 0) => ~solver.changed)
  /\ [][solver.pc \in {"while", "for"}
        => \A id \in DOMAIN solver.positions :
             /\ id \in DOMAIN solver'.positions
             /\ solver'.positions[id] = solver.positions[id]]_vars
  /\ [][(solver.pc = "for" /\ ~solver.changed /\ solver'.changed)
        => \E id \in DOMAIN solver'.positions :
             id \notin DOMAIN solver.positions]_vars
  /\ [][(solver.pc = "for" /\ solver'.positions # solver.positions)
        => solver'.changed]_vars
  /\ [](solver.pc \in {"while", "for", "return"}
        => \/ solver.positions = EmptyMap
           \/ DOMAIN solver.positions \subseteq
                Chained({solver.modules[1].instanceId}, MaxLinks))

\* the solver returned after placing one module in each of two passes and
\* finding nothing to place in the third
C30_Witness ==
  /\ solver.pc = "return"
  /\ Len(solver.modules) = 3
  /\ DOMAIN solver.positions = {"A", "B", "C"}
  /\ solver.guard = 3
  /\ ~solver.changed

====
